---- MODULE Spec2Model ----
(***************************************************************************)
(* A model of the QGeoMarine seismic processing core, of the towed-sensor  *)
(* navigation geometry, and of the editor that applies the processing      *)
(* functions to the loaded data.                                           *)
(*                                                                         *)
(* Conventions.                                                            *)
(*  - A trace matrix is a sequence of traces, a trace a sequence of        *)
(*    samples.  Python indices are 0-based: sample index j of the code is  *)
(*    position j + 1 of the sequence.                                      *)
(*  - Arrays live in a heap of cells, so that "writes into the caller's    *)
(*    array" and "writes into a fresh array" are different behaviours.     *)
(*  - Times are whole numbers of ticks; mute_time / sample_interval is the *)
(*    exact quotient of two tick counts (binary floating point rounding of *)
(*    the quotient is not modelled).                                       *)
(*  - Amplitudes are integers.                                             *)
(***************************************************************************)
EXTENDS Integers, Sequences, FiniteSets, TLC

VARIABLES
    heap,       \* array functions: cell "caller" = the array passed in, cell "fresh" = an array allocated by the call
    call,       \* array functions: the call made so far (function, arguments, outcome)
    given,      \* array functions: the contents of the caller's array when it was passed in
    segy,       \* navigation: the trace headers of the SEG-Y file, one record per trace
    segy_given, \* navigation: the trace headers as they were before the call
    navcall,    \* navigation: the call made so far (function, arguments, outcome)
    arrays,     \* editor: the arrays allocated so far; a reference is a position in this sequence, 0 is None
    self_data,              \* editor: SeismicEditor.data, a reference
    self_processed_data,    \* editor: SeismicEditor.processed_data, a reference
    self_sample_interval,   \* editor: SeismicEditor.sample_interval, in ticks (0 is None)
    loaded,     \* editor: the array the parser delivered, as it was then
    workers,    \* editor: the ProcessWorker threads started and not yet run
    events,     \* editor: the signals the workers emitted that the UI thread has not yet handled
    started,    \* editor: the number of processing operations requested
    failed,     \* editor: the number of those that ended in an error
    asked       \* editor: the filter parameters last collected by get_filter_params, and what the slot then did

coreVars == <<heap, call, given>>
navVars == <<segy, segy_given, navcall>>
edVars == <<arrays, self_data, self_processed_data, self_sample_interval, loaded, workers,
            events, started, failed, asked>>
vars == <<heap, call, given, segy, segy_given, navcall, arrays, self_data, self_processed_data,
          self_sample_interval, loaded, workers, events, started, failed, asked>>

(***************************************************************************)
(* Bounds of the model.                                                    *)
(***************************************************************************)
MaxTraces == 2
MaxSamples == 3
MaxTime == 4
MaxInterval == 2
MaxLen == 5
MaxTrack == 3
MaxOps == 3

(***************************************************************************)
(* Python and numpy primitives.                                            *)
(***************************************************************************)
None == <<>>

\* int(a / b) for b > 0: truncation toward zero.
PyInt(a, b) == IF a >= 0 THEN a \div b ELSE 0 - ((0 - a) \div b)

\* A slice bound k on an axis of length m, as numpy normalises it.
SliceIndex(k, m) == IF k < 0 THEN (IF m + k < 0 THEN 0 ELSE m + k)
                    ELSE (IF k > m THEN m ELSE k)

n_traces(M) == Len(M)
n_samples(M) == Len(M[1])

\* a[:, lo:hi] = v on matrix M (lo, hi already normalised, 0-based, hi exclusive)
AssignCols(M, lo, hi, v) ==
    [i \in 1..Len(M) |->
        [j \in 1..Len(M[i]) |-> IF lo <= j - 1 /\ j - 1 < hi THEN v ELSE M[i][j]]]

\* np.copy(data): a fresh array with the contents of cell src.
np_copy(h, src) == [heap |-> [h EXCEPT !["fresh"] = h[src]], ref |-> "fresh"]

\* The outcome of a call: the heap afterwards, the reference returned, and
\* whether the call raised (then nothing is returned and the array the call
\* allocated is unreachable).  den is the common denominator of the samples of
\* the returned array (1 unless the function scales by a fraction).
Returned(h, r) == [heap |-> h, ret |-> r, raised |-> FALSE, den |-> 1]
Raised(h) == [heap |-> [h EXCEPT !["fresh"] = None], ret |-> "none", raised |-> TRUE, den |-> 1]

(***************************************************************************)
(* Mute (core/signals/mute.py)                                             *)
(***************************************************************************)
\* mutant: the boundary sample is muted as well
top_mute_off_by_one(h, data, mute_time, sample_interval) ==
    LET mute_sample == PyInt(mute_time, sample_interval) + 1
        c == np_copy(h, data)
        m == n_samples(c.heap[c.ref])
    IN  Returned([c.heap EXCEPT ![c.ref] = AssignCols(@, 0, SliceIndex(mute_sample, m), 0)], c.ref)

\* mutant: the mute is written into the array passed in
top_mute_in_place(h, data, mute_time, sample_interval) ==
    LET mute_sample == PyInt(mute_time, sample_interval)
        m == n_samples(h[data])
    IN  Returned([h EXCEPT ![data] = AssignCols(@, 0, SliceIndex(mute_sample, m), 0)], data)

top_mute(h, data, mute_time, sample_interval) ==
    LET mute_sample == PyInt(mute_time, sample_interval)
        c == np_copy(h, data)
        m == n_samples(c.heap[c.ref])
    IN  Returned([c.heap EXCEPT ![c.ref] = AssignCols(@, 0, SliceIndex(mute_sample, m), 0)], c.ref)

\* mutant: the boundary sample is kept
bottom_mute_off_by_one(h, data, mute_time, sample_interval) ==
    LET mute_sample == PyInt(mute_time, sample_interval) + 1
        c == np_copy(h, data)
        m == n_samples(c.heap[c.ref])
    IN  Returned([c.heap EXCEPT ![c.ref] = AssignCols(@, SliceIndex(mute_sample, m), m, 0)], c.ref)

\* mutant: the mute is written into the array passed in, which is returned
bottom_mute_in_place(h, data, mute_time, sample_interval) ==
    LET mute_sample == PyInt(mute_time, sample_interval)
        m == n_samples(h[data])
    IN  Returned([h EXCEPT ![data] = AssignCols(@, SliceIndex(mute_sample, m), m, 0)], data)

bottom_mute(h, data, mute_time, sample_interval) ==
    LET mute_sample == PyInt(mute_time, sample_interval)
        c == np_copy(h, data)
        m == n_samples(c.heap[c.ref])
    IN  Returned([c.heap EXCEPT ![c.ref] = AssignCols(@, SliceIndex(mute_sample, m), m, 0)], c.ref)

\* mutant: traces at the threshold offset are muted as well
offset_mute_at_threshold(h, data, offsets, mute_offset) ==
    LET c == np_copy(h, data)
        n == n_traces(c.heap[c.ref])
        hit == { i \in 0..(Len(offsets) - 1) : offsets[i + 1] >= mute_offset }
    IN  IF \E i \in hit : i >= n
        THEN Raised(h)
        ELSE Returned([c.heap EXCEPT ![c.ref] =
                          [t \in 1..n |-> IF t - 1 \in hit
                                          THEN [j \in 1..Len(@[t]) |-> 0]
                                          ELSE @[t]]], c.ref)

\* for i, offset in enumerate(offsets): if offset > mute_offset: muted_data[i, :] = 0
\* Row i of the copy is written for every i the loop reaches; an index i past the
\* last trace raises IndexError, and the copy made so far is dropped.
offset_mute(h, data, offsets, mute_offset) ==
    LET c == np_copy(h, data)
        n == n_traces(c.heap[c.ref])
        hit == { i \in 0..(Len(offsets) - 1) : offsets[i + 1] > mute_offset }
    IN  IF \E i \in hit : i >= n
        THEN Raised(h)
        ELSE Returned([c.heap EXCEPT ![c.ref] =
                          [t \in 1..n |-> IF t - 1 \in hit
                                          THEN [j \in 1..Len(@[t]) |-> 0]
                                          ELSE @[t]]], c.ref)

\* mutant: the samples are multiplied by factor in place of 1 - factor
time_variant_mute_by_factor(h, data, initial_time, final_time, sample_interval) ==
    LET mute_start_sample == PyInt(initial_time, sample_interval)
        mute_end_sample == PyInt(final_time, sample_interval)
        c == np_copy(h, data)
        num_samples == n_samples(c.heap[c.ref])
        empty == mute_start_sample >= mute_end_sample
        den == IF empty THEN 1 ELSE mute_end_sample - mute_start_sample
    IN  IF ~empty /\ mute_end_sample - 1 >= num_samples
        THEN Raised(h)
        ELSE [Returned([c.heap EXCEPT ![c.ref] =
                          [t \in 1..Len(@) |->
                              [j \in 1..Len(@[t]) |->
                                  IF mute_start_sample <= j - 1 /\ j - 1 < mute_end_sample
                                  THEN @[t][j] * ((j - 1) - mute_start_sample)
                                  ELSE @[t][j] * den]]], c.ref)
              EXCEPT !.den = den]

\* trace[i] *= (1 - factor), factor = (i - start) / (end - start), for i in
\* range(start, end).  The returned array is held as numerators over the common
\* denominator den = end - start (1 when the range is empty): sample i of the
\* window is trace[i] * (end - i) / den, a sample outside it trace[i] * den / den.
\* An index i >= num_samples raises IndexError.
time_variant_mute(h, data, initial_time, final_time, sample_interval) ==
    LET mute_start_sample == PyInt(initial_time, sample_interval)
        mute_end_sample == PyInt(final_time, sample_interval)
        c == np_copy(h, data)
        num_samples == n_samples(c.heap[c.ref])
        empty == mute_start_sample >= mute_end_sample
        den == IF empty THEN 1 ELSE mute_end_sample - mute_start_sample
    IN  IF ~empty /\ mute_end_sample - 1 >= num_samples
        THEN Raised(h)
        ELSE [Returned([c.heap EXCEPT ![c.ref] =
                          [t \in 1..Len(@) |->
                              [j \in 1..Len(@[t]) |->
                                  IF mute_start_sample <= j - 1 /\ j - 1 < mute_end_sample
                                  THEN @[t][j] * (mute_end_sample - (j - 1))
                                  ELSE @[t][j] * den]]], c.ref)
              EXCEPT !.den = den]

\* PredefinedMute.  A tick is 0.05 s: 200 ms are 4 ticks, 100 ms are 2 ticks, so
\* that records shorter than 200 ms have more than one sample.
ShallowZoneMuteTime == 4
DeepZoneMuteTime == 4
DirectWaveMuteTime == 2

shallow_zone_mute(h, data, sample_interval) ==
    top_mute(h, data, ShallowZoneMuteTime, sample_interval)

deep_zone_mute(h, data, sample_interval) ==
    bottom_mute(h, data, n_samples(h[data]) * sample_interval - DeepZoneMuteTime, sample_interval)

marine_direct_wave_mute(h, data, sample_interval) ==
    top_mute(h, data, DirectWaveMuteTime, sample_interval)

(***************************************************************************)
(* Gains (Gains.py)                                                        *)
(***************************************************************************)
RECURSIVE Pow(_, _)
Pow(b, e) == IF e = 0 THEN 1 ELSE b * Pow(b, e - 1)

RECURSIVE SumOver(_, _)
SumOver(S, f) == IF S = {} THEN 0
                 ELSE LET x == CHOOSE y \in S : TRUE IN f[x] + SumOver(S \ {x}, f)

\* np.zeros_like(data): a fresh array of zeros of the shape of cell src.
np_zeros_like(h, src) ==
    [heap |-> [h EXCEPT !["fresh"] = [i \in 1..Len(h[src]) |-> [j \in 1..Len(h[src][i]) |-> 0]]],
     ref |-> "fresh"]

\* np.convolve(envelope**2, np.ones(w)/w, mode='same')[j], times w, for w <= len:
\* the sum of the squares over the window of w samples centred on j.
WindowSquares(trace, w, j) ==
    LET hi == j + ((w - 1) \div 2)
        lo == hi - w + 1
        win == { i \in 0..(Len(trace) - 1) : lo <= i /\ i <= hi }
    IN  SumOver(win, [i \in win |-> trace[i + 1] * trace[i + 1]])

\* Sample j of the returned array stands for trace[j] / rms[j] and is held as the
\* pair <<trace[j], w * rms[j]^2>>; a second component 0 is where the code puts the
\* floor 1e-10 in place of the rms.  With window_size > n_samples np.convolve
\* returns window_size values, and trace / rms raises ValueError.
agc_gain(h, data, window_size) ==
    LET c == np_zeros_like(h, data)
        n_samp == n_samples(h[data])
    IN  IF window_size > n_samp
        THEN Raised(h)
        ELSE [Returned([c.heap EXCEPT ![c.ref] =
                          [i \in 1..Len(h[data]) |->
                              [j \in 1..n_samp |->
                                  <<h[data][i][j], WindowSquares(h[data][i], window_size, j - 1)>>]]],
                       c.ref)
              EXCEPT !.den = window_size]

\* time_curve = np.arange(1, n_samples + 1) ** time_gradient (whole gradients)
tvg_gain(h, data, time_gradient) ==
    LET c == np_zeros_like(h, data)
    IN  Returned([c.heap EXCEPT ![c.ref] =
                     [i \in 1..Len(h[data]) |->
                         [j \in 1..Len(h[data][i]) |-> h[data][i][j] * Pow(j, time_gradient)]]],
                 c.ref)

\* const_gain_data = data * gain_factor: the product is a new array
constant_gain(h, data, gain_factor) ==
    Returned([h EXCEPT !["fresh"] =
                 [i \in 1..Len(h[data]) |->
                     [j \in 1..Len(h[data][i]) |-> h[data][i][j] * gain_factor]]],
             "fresh")

(***************************************************************************)
(* TraceQC (core/processing/trace_qc.py)                                   *)
(***************************************************************************)
\* np.nan, held as a value no amplitude takes
NaN == 0 - 999999

annotate_traces(h, data, flagged_indices) ==
    LET c == np_copy(h, data)
    IN  Returned([c.heap EXCEPT ![c.ref] =
                     [i \in 1..Len(@) |->
                         IF i - 1 \in flagged_indices
                         THEN [j \in 1..Len(@[i]) |-> NaN]
                         ELSE @[i]]], c.ref)

(***************************************************************************)
(* TraceQC detectors (core/processing/trace_qc.py)                         *)
(*                                                                         *)
(* Amplitudes are whole numbers of a unit of 5e-7, so that the default     *)
(* thresholds are whole: threshold_dead 1e-6 is 2, energy_threshold 1e-3   *)
(* is 2000; clip_threshold 0.95 is the fraction 19/20.  Comparisons of     *)
(* reals are made exactly: sqrt(x) < e is x < e * e.                       *)
(***************************************************************************)
\* TraceQC.__init__ with its default arguments
TraceQC_init == [threshold_dead |-> 2, clip_num |-> 19, clip_den |-> 20,
                 energy_threshold |-> 2000]

Abs(x) == IF x < 0 THEN 0 - x ELSE x

\* np.max(np.abs(trace))
MaxAbs(trace) == CHOOSE v \in { Abs(trace[j]) : j \in 1..Len(trace) } :
                    \A j \in 1..Len(trace) : Abs(trace[j]) <= v

\* for i, trace in enumerate(data): the indices in the order of the loop
Indices(data) == [i \in 1..Len(data) |-> i - 1]

\* mutant: a sample at the threshold still counts as dead
detect_dead_traces_at_threshold(self, data) ==
    SelectSeq(Indices(data),
              LAMBDA i : \A j \in 1..Len(data[i + 1]) :
                            Abs(data[i + 1][j]) <= self.threshold_dead)

detect_dead_traces(self, data) ==
    SelectSeq(Indices(data),
              LAMBDA i : \A j \in 1..Len(data[i + 1]) :
                            Abs(data[i + 1][j]) < self.threshold_dead)

\* np.sum(np.abs(trace) > self.clip_threshold * max_val)
count_max(self, trace) ==
    Cardinality({ j \in 1..Len(trace) :
                    Abs(trace[j]) * self.clip_den > self.clip_num * MaxAbs(trace) })

\* mutant: a trace with exactly 10% of its samples at clip level is flagged
detect_clipped_traces_at_tenth(self, data) ==
    SelectSeq(Indices(data),
              LAMBDA i : count_max(self, data[i + 1]) * 10 >= Len(data[i + 1]))

\* count_max > len(trace) * 0.1
detect_clipped_traces(self, data) ==
    SelectSeq(Indices(data),
              LAMBDA i : count_max(self, data[i + 1]) * 10 > Len(data[i + 1]))

\* np.sum(trace ** 2); np.mean is this sum over len(trace)
SumSquares(trace) ==
    SumOver(1..Len(trace), [j \in 1..Len(trace) |-> trace[j] * trace[j]])

\* mutant: a trace with an RMS equal to the threshold is flagged
detect_low_energy_traces_at_threshold(self, data) ==
    SelectSeq(Indices(data),
              LAMBDA i : SumSquares(data[i + 1])
                            <= self.energy_threshold * self.energy_threshold * Len(data[i + 1]))

\* np.sqrt(np.mean(trace ** 2)) < self.energy_threshold
detect_low_energy_traces(self, data) ==
    SelectSeq(Indices(data),
              LAMBDA i : SumSquares(data[i + 1])
                            < self.energy_threshold * self.energy_threshold * Len(data[i + 1]))

run_all_checks(self, data) ==
    [dead |-> detect_dead_traces(self, data),
     clipped |-> detect_clipped_traces(self, data),
     low_energy |-> detect_low_energy_traces(self, data)]

(***************************************************************************)
(* Navigation (core/navigation/navigation.py)                              *)
(*                                                                         *)
(* Real numbers the code computes with sqrt, cos, sin and arctan2 are held *)
(* exactly, as terms:                                                      *)
(*   [radicand |-> r, nan |-> b]      np.sqrt(r), nan when r < 0           *)
(*   [plus |-> s, root |-> q]         s + q, q such a square root          *)
(*   [kind |-> "arctan2", dy, dx]     np.arctan2(dy, dx)                   *)
(*   [kind |-> "Heading", value]      a heading read from the table        *)
(*   [X_ship, Y_ship, total_offset, ship_heading]                          *)
(*        the point (X_ship + total_offset * cos(ship_heading),            *)
(*                   Y_ship + total_offset * sin(ship_heading))            *)
(***************************************************************************)
NoNavCall == [fn |-> "none", args |-> <<>>, raised |-> FALSE, error |-> "", value |-> <<>>,
              computed |-> <<>>]

NavIdle ==
    /\ segy = <<>>
    /\ segy_given = <<>>
    /\ navcall = NoNavCall

\* no filter parameters were asked for yet
NoRequest == [slot |-> "none", request |-> 0, order |-> 0, freq |-> 0, freqmax |-> 0,
              bandpass |-> FALSE, cancelled |-> "none"]

\* SeismicEditor.__init__: no data, no processed data, no sample interval
EditorIdle ==
    /\ arrays = <<>>
    /\ self_data = 0
    /\ self_processed_data = 0
    /\ self_sample_interval = 0
    /\ loaded = None
    /\ workers = <<>>
    /\ events = <<>>
    /\ started = 0
    /\ failed = 0
    /\ asked = NoRequest

\* The outcome of a function: a value, or an exception.
Ok(v) == [raised |-> FALSE, error |-> "", value |-> v]
Err(e) == [raised |-> TRUE, error |-> e, value |-> <<>>]

np_sqrt(x) == [radicand |-> x, nan |-> x < 0]

LaybackError == "ValueError: Cable length must be greater than depth to apply the Pythagorean theorem."

\* mutant: the squares are added
calculate_layback_sum(cable_length, depth) ==
    IF cable_length < depth
    THEN Err(LaybackError)
    ELSE Ok(np_sqrt(cable_length * cable_length + depth * depth))

\* mutant: the geometry is not checked
calculate_layback_unchecked(cable_length, depth) ==
    Ok(np_sqrt(cable_length * cable_length - depth * depth))

calculate_layback(cable_length, depth) ==
    IF cable_length < depth
    THEN Err(LaybackError)
    ELSE Ok(np_sqrt(cable_length * cable_length - depth * depth))

calculate_total_offset(row) ==
    LET layback == calculate_layback(row.cable_length, row.depth)
    IN  IF layback.raised
        THEN layback
        ELSE Ok([plus |-> row.sheave_offset, root |-> layback.value])

calculate_heading(gps_coords1, gps_coords2) ==
    [kind |-> "arctan2", dy |-> gps_coords2[2] - gps_coords1[2],
     dx |-> gps_coords2[1] - gps_coords1[1], value |-> 0]

\* ship_gps_df['Heading'][i]
HeadingColumn(df, i) == [kind |-> "Heading", dy |-> 0, dx |-> 0, value |-> df.Heading[i]]

calculate_sbp_coords(ship_gps_coords, total_offset, ship_heading) ==
    [X_ship |-> ship_gps_coords[1], Y_ship |-> ship_gps_coords[2],
     total_offset |-> total_offset, ship_heading |-> ship_heading]

Min(S) == CHOOSE x \in S : \A y \in S : x <= y

\* int(np.sqrt(x)) for x >= 0
IntSqrt(x) == CHOOSE r \in 0..x : r * r <= x /\ x < (r + 1) * (r + 1)

\* ---- NavigationFromTowFish -------------------------------------------------

\* [x for x in source_x if x != 0]: the non-zero values of one header word, in
\* trace order
NonZero(xs) == SelectSeq(xs, LAMBDA x : x # 0)

\* zip(a, b): pairs up to the shorter of the two
Zip(a, b) == [k \in 1..(IF Len(a) < Len(b) THEN Len(a) ELSE Len(b)) |-> <<a[k], b[k]>>]

\* The four header words are collected into four lists, each list is filtered on
\* its own, and the filtered lists are zipped.
load_Nav_data_from_segyfile(file) ==
    LET source_x == NonZero([t \in 1..Len(file) |-> file[t].SourceX])
        source_y == NonZero([t \in 1..Len(file) |-> file[t].SourceY])
        receiver_x == NonZero([t \in 1..Len(file) |-> file[t].GroupX])
        receiver_y == NonZero([t \in 1..Len(file) |-> file[t].GroupY])
    IN  [raised |-> FALSE, error |-> "", value |-> Zip(source_x, source_y),
         receiver_coords |-> Zip(receiver_x, receiver_y), segy |-> file]

\* the header of trace trace_idx after the five assignments of the loop body
GeometryHeader(hdr, src, rcv) ==
    LET offset == np_sqrt((rcv[1] - src[1]) * (rcv[1] - src[1])
                          + (rcv[2] - src[2]) * (rcv[2] - src[2]))
    IN  [hdr EXCEPT !.SourceX = src[1], !.SourceY = src[2],
                    !.GroupX = rcv[1], !.GroupY = rcv[2],
                    !.offset = IntSqrt(offset.radicand)]

MismatchError == "ValueError: Mismatch between trace count and number of source/receiver coordinates"

\* mutant: only the source list is compared with the trace count; the loop then
\* writes the traces it has both coordinates for and fails on the next one
assign_geometry_source_checked(file, source_coords, receiver_coords) ==
    LET n == Len(file)
        k == IF Len(receiver_coords) < n THEN Len(receiver_coords) ELSE n
        written == [t \in 1..n |-> IF t <= k
                                   THEN GeometryHeader(file[t], source_coords[t], receiver_coords[t])
                                   ELSE file[t]]
    IN  IF n # Len(source_coords)
        THEN [raised |-> TRUE, error |-> MismatchError, value |-> <<>>, segy |-> file]
        ELSE IF k < n
        THEN [raised |-> TRUE, error |-> "IndexError: list index out of range", value |-> <<>>,
              segy |-> written]
        ELSE [raised |-> FALSE, error |-> "", value |-> written, segy |-> written]

assign_geometry(file, source_coords, receiver_coords) ==
    LET n == Len(file)
    IN  IF n # Len(source_coords) \/ n # Len(receiver_coords)
        THEN [raised |-> TRUE, error |-> MismatchError, value |-> <<>>, segy |-> file]
        ELSE LET written == [t \in 1..n |->
                                GeometryHeader(file[t], source_coords[t], receiver_coords[t])]
             IN  [raised |-> FALSE, error |-> "", value |-> written, segy |-> written]

\* ---- NavigationFromShip ----------------------------------------------------

SbpMismatchError == "Error assigning SBP coordinates to SEG-Y file: Mismatch between trace count and number of SBP coordinates."

\* self.receiver_coords is the empty list NavigationFromShip.__init__ leaves, so
\* the optional offset of line 375 is written only to a file without traces.
\* int(X_sbp), int(Y_sbp) are written; the coordinates passed are whole numbers.
assign_sbp_coords_to_segy(file, sbp_coords) ==
    LET n == Len(file)
    IN  IF Len(sbp_coords) # n
        THEN [raised |-> TRUE, error |-> SbpMismatchError, value |-> <<>>, segy |-> file]
        ELSE LET written == [t \in 1..n |->
                                [file[t] EXCEPT !.SourceX = sbp_coords[t][1],
                                                !.SourceY = sbp_coords[t][2]]]
             IN  [raised |-> FALSE, error |-> "", value |-> <<>>, segy |-> written]

\* the pair (X_sbp, Y_sbp) of a computed point, as it is written to a header
SbpPair(c) == << <<"X_sbp", c>>, <<"Y_sbp", c>> >>

\* file is the SEG-Y file self.segy_file_path names (the parameter segyfile is
\* not used).  The loop visits range(len(df) - 1).  The two new columns are then assigned
\* from zip(*sbp_coords): unpacking fails on an empty list, and pandas refuses a
\* column whose length is not that of the table.  Only after that are the headers
\* written.  "computed" is the list sbp_coords when the function is left.
ship_to_sbp_nav(navigation_df, file) ==
    LET n == Len(navigation_df.rows)
        visited == 1..(n - 1)
        gps(i) == <<navigation_df.rows[i].X_ship, navigation_df.rows[i].Y_ship>>
        offs == [i \in visited |-> calculate_total_offset(navigation_df.rows[i])]
        heading(i) == IF "Heading" \in navigation_df.columns
                      THEN HeadingColumn(navigation_df, i)
                      ELSE calculate_heading(gps(i), gps(i + 1))
        coord(i) == calculate_sbp_coords(gps(i), offs[i].value, heading(i))
        bad == { i \in visited : offs[i].raised }
        done == IF bad = {} THEN visited ELSE 1..(Min(bad) - 1)
        sbp_coords == [i \in done |-> coord(i)]
    IN  IF bad # {}
        THEN [raised |-> TRUE, error |-> offs[Min(bad)].error, value |-> <<>>,
              segy |-> file, computed |-> sbp_coords]
        ELSE IF Len(sbp_coords) = 0
        THEN [raised |-> TRUE, error |-> "ValueError: not enough values to unpack (expected 2, got 0)",
              value |-> <<>>, segy |-> file, computed |-> sbp_coords]
        ELSE IF Len(sbp_coords) # n
        THEN [raised |-> TRUE, error |-> "ValueError: Length of values does not match length of index",
              value |-> <<>>, segy |-> file, computed |-> sbp_coords]
        ELSE LET assigned == assign_sbp_coords_to_segy(file, [i \in done |-> SbpPair(coord(i))])
             IN  IF assigned.raised
                 THEN [raised |-> TRUE, error |-> assigned.error, value |-> <<>>,
                       segy |-> assigned.segy, computed |-> sbp_coords]
                 ELSE [raised |-> FALSE, error |-> "", value |-> sbp_coords,
                       segy |-> assigned.segy, computed |-> sbp_coords]

(***************************************************************************)
(* FIR_Filters.wavelet_filter (core/signals/filters.py)                    *)
(*                                                                         *)
(* The coefficients are not computed; the transform is followed by the     *)
(* lengths of its arrays, which PyWavelets fixes for the default signal    *)
(* extension mode: a decomposition step of data_len samples with a filter  *)
(* of filter_len taps gives floor((data_len + filter_len - 1) / 2)         *)
(* coefficients, a reconstruction step of n coefficients gives             *)
(* 2 n - filter_len + 2 samples.                                           *)
(***************************************************************************)
dwt_coeff_len(data_len, filter_len) == (data_len + filter_len - 1) \div 2

idwt_len(coeff_len, filter_len) == 2 * coeff_len - filter_len + 2

RECURSIVE Log2(_)
Log2(x) == IF x < 2 THEN 0 ELSE 1 + Log2(x \div 2)

dwt_max_level(data_len, filter_len) ==
    IF data_len < filter_len - 1 THEN 0 ELSE Log2(data_len \div (filter_len - 1))

\* pywt.wavedec: the lengths of [cA_n, cD_n, ..., cD_1]
RECURSIVE wavedec(_, _, _)
wavedec(data_len, filter_len, level) ==
    IF level = 0
    THEN <<data_len>>
    ELSE LET c == dwt_coeff_len(data_len, filter_len)
         IN  wavedec(c, filter_len, level - 1) \o <<c>>

\* pywt.waverec from coefficient k on, a being the length of the approximation
\* so far: an approximation one longer than the detail is cut by one sample, any
\* other difference is an error
RECURSIVE waverec_from(_, _, _, _)
waverec_from(a, coeffs, k, filter_len) ==
    IF k > Len(coeffs)
    THEN Ok(a)
    ELSE IF a # coeffs[k] /\ a # coeffs[k] + 1
    THEN Err("ValueError: coefficient shape mismatch")
    ELSE waverec_from(idwt_len(coeffs[k], filter_len), coeffs, k + 1, filter_len)

waverec(coeffs, filter_len) == waverec_from(coeffs[1], coeffs, 2, filter_len)

\* The length of the trace wavelet_filter returns for a trace of signal_len
\* samples.  pywt.threshold keeps the length of each coefficient array.  A level
\* above dwt_max_level is refused by a strict PyWavelets (before 1.0) and only
\* warned about by a later one.
wavelet_filter(signal_len, filter_len, level, strict) ==
    IF strict /\ level > dwt_max_level(signal_len, filter_len)
    THEN Err("ValueError: Error applying wavelet filter: level value too high")
    ELSE LET filtered == waverec(wavedec(signal_len, filter_len, level), filter_len)
         IN  IF filtered.raised
             THEN Err("ValueError: Error applying wavelet filter: coefficient shape mismatch")
             ELSE filtered

\* an array of the given shape whose samples are not computed
Uncomputed(n, m) == [n_traces |-> n, n_samples |-> m]

\* ProcessWorker.run for a function applied trace by trace:
\* np.array([process_func(trace, *args) for trace in data]), here for
\* wavelet_filter; an exception ends the run without a result
wavelet_filter_by_trace(h, data, filter_len, level, strict) ==
    LET r == wavelet_filter(n_samples(h[data]), filter_len, level, strict)
    IN  IF r.raised
        THEN Raised(h)
        ELSE Returned([h EXCEPT !["fresh"] = Uncomputed(n_traces(h[data]), r.value)], "fresh")

(***************************************************************************)
(* IIR filters (core/signals/filters.py, class IIR_Filters)                *)
(*                                                                         *)
(* Frequencies and the sample rate are whole numbers of Hz.  The filter    *)
(* coefficients are not computed: a design is the record of what was asked *)
(* for, and a filtered trace is the record of the design, of the passes    *)
(* made and of the number of samples.                                      *)
(***************************************************************************)
\* scipy.signal.iirfilter with fs: Wn = 2 * Wn / fs, then every critical
\* frequency must be greater than 0, Wn[0] less than Wn[1], and all below 1
iirfilter(N, Wn, btype, ftype, output, fs) ==
    IF \E k \in 1..Len(Wn) : Wn[k] <= 0
    THEN Err("ValueError")
    ELSE IF Len(Wn) > 1 /\ ~(Wn[1] < Wn[2])
    THEN Err("ValueError")
    ELSE IF \E k \in 1..Len(Wn) : 2 * Wn[k] >= fs
    THEN Err("ValueError")
    ELSE Ok([ftype |-> ftype, btype |-> btype, N |-> N, Wn |-> Wn, output |-> output])

\* signal.butter(N, Wn, btype, output=..., fs=...)
butter(N, Wn, btype, output, fs) == iirfilter(N, Wn, btype, "butter", output, fs)

\* signal.cheby2(N, rs, Wn, btype, output=..., fs=...); output is 'ba' by default
cheby2(N, rs, Wn, btype, output, fs) == iirfilter(N, Wn, btype, "cheby2", output, fs)

\* signal.sosfilt(sos, x): one causal pass; sos must be an array of sections
sosfilt(sos, x) ==
    IF sos.output # "sos"
    THEN Err("ValueError")
    ELSE Ok([design |-> sos, passes |-> <<"forward">>, n_samples |-> Len(x)])

\* signal.lfilter(b, a, x): args are the positional arguments of the call
lfilter(args) ==
    IF Len(args) < 3
    THEN Err("TypeError")
    ELSE Ok([design |-> args[1], passes |-> <<"forward">>, n_samples |-> Len(args[3])])

\* try: ... except ValueError as e: raise ValueError(...)
ExceptValueError(o) == IF o.raised /\ o.error = "ValueError" THEN Err("ValueError") ELSE o

\* sos = design; filtered_signal_data = signal.sosfilt(sos, signal_data)
DesignThenSosfilt(sos, signal_data) ==
    ExceptValueError(IF sos.raised THEN sos ELSE sosfilt(sos.value, signal_data))

IIR_highpass_filter(signal_data, sample_rate, filter_order, freq) ==
    IF 2 * freq >= sample_rate
    THEN Err("ValueError")
    ELSE DesignThenSosfilt(butter(filter_order, <<freq>>, "highpass", "sos", sample_rate),
                           signal_data)

IIR_lowpass_filter(signal_data, sample_rate, filter_order, freq) ==
    IF 2 * freq >= sample_rate
    THEN Err("ValueError")
    ELSE DesignThenSosfilt(butter(filter_order, <<freq>>, "lowpass", "sos", sample_rate),
                           signal_data)

\* mutant: the order of the two cutoffs is not looked at
IIR_bandpass_filter_unordered(signal_data, sample_rate, filter_order, freqmin, freqmax) ==
    IF 2 * freqmin >= sample_rate \/ 2 * freqmax >= sample_rate
    THEN Err("ValueError")
    ELSE IF freqmin <= 0 \/ freqmax <= 0
    THEN Err("ValueError")
    ELSE Ok([design |-> [ftype |-> "butter", btype |-> "bandpass", N |-> filter_order,
                         Wn |-> <<freqmin, freqmax>>, output |-> "sos"],
             passes |-> <<"forward">>, n_samples |-> Len(signal_data)])

IIR_bandpass_filter(signal_data, sample_rate, filter_order, freqmin, freqmax) ==
    IF 2 * freqmin >= sample_rate \/ 2 * freqmax >= sample_rate
    THEN Err("ValueError")
    ELSE DesignThenSosfilt(butter(filter_order, <<freqmin, freqmax>>, "bandpass", "sos",
                                  sample_rate),
                           signal_data)

cheby2_highpass_filter(signal_data, sample_rate, filter_order, freq, ripple) ==
    DesignThenSosfilt(cheby2(filter_order, ripple, <<freq>>, "highpass", "sos", sample_rate),
                      signal_data)

\* sos = signal.cheby2(...) without output='sos'; signal.lfilter(sos, signal_data)
cheby2_lowpass_filter(signal_data, sample_rate, filter_order, freq, ripple) ==
    LET sos == cheby2(filter_order, ripple, <<freq>>, "lowpass", "ba", sample_rate)
    IN  ExceptValueError(IF sos.raised THEN sos ELSE lfilter(<<sos.value, signal_data>>))

cheby2_bandpass_filter(signal_data, sample_rate, filter_order, freqmin, freqmax, ripple) ==
    DesignThenSosfilt(cheby2(filter_order, ripple, <<freqmin, freqmax>>, "bandpass", "sos",
                             sample_rate),
                      signal_data)

(***************************************************************************)
(* FIR filters (core/signals/filters.py, class FIR_Filters)                *)
(***************************************************************************)
\* np.fft.fft(signal_data): the transform is not computed, bin k is the term
\* "bin k of the transform"; a bin set to zero is the term with zero TRUE
np_fft(x) == [k \in 1..Len(x) |-> [bin |-> k - 1, zero |-> FALSE]]

\* np.fft.fftfreq(n, d): bin k holds k / (n d) for k <= (n - 1) // 2 and
\* (k - n) / (n d) above; bin_index is the numerator k or k - n
bin_index(n, k) == IF k <= (n - 1) \div 2 THEN k ELSE k - n

\* mask = (freqs > freqmin) & (freqs < freqmax), with freqs = bin_index * sample_rate / n
fourier_mask(n, k, freqmin, freqmax, sample_rate) ==
    /\ bin_index(n, k) * sample_rate > freqmin * n
    /\ bin_index(n, k) * sample_rate < freqmax * n

\* fft_signal[~mask] = 0; the inverse transform of the masked spectrum is returned
fourier_filter(signal_data, freqmin, freqmax, sample_rate) ==
    LET n == Len(signal_data)
        fft_signal == np_fft(signal_data)
    IN  Ok([spectrum |-> [k \in 1..n |->
                            IF fourier_mask(n, k - 1, freqmin, freqmax, sample_rate)
                            THEN fft_signal[k]
                            ELSE [fft_signal[k] EXCEPT !.zero = TRUE]],
            passes |-> <<"ifft">>, n_samples |-> n])

(***************************************************************************)
(* Zero-phase filtering (signal.sosfiltfilt).                              *)
(*                                                                         *)
(* The two passes are computed exactly for a design of one section, in     *)
(* fixed point: a sample is a whole number of 2^-27.  The section is the   *)
(* first-order Butterworth bandpass centred on a quarter of the sample     *)
(* rate, y[n] = x[n] - x[n-2] - y[n-2] / 2, without its constant gain; its *)
(* coefficients stand for those of every band asked for.                   *)
(***************************************************************************)
FixedPoint == Pow(2, 27)

\* signal.sosfilt(sos, x, zi): one section in transposed direct form II,
\* b = [1, 0, -1], a = [1, 0, 1/2]; the outputs from position n on
RECURSIVE sosfilt_from(_, _, _, _)
sosfilt_from(x, n, z0, z1) ==
    IF n > Len(x)
    THEN <<>>
    ELSE LET y == x[n] + z0
         IN  <<y>> \o sosfilt_from(x, n + 1, z1, 0 - x[n] - (y \div 2))

\* signal.sosfilt_zi(sos): the state of the section settled on a constant 1
sosfilt_zi == <<0 - 1, 0 - 1>>

\* scipy.signal._arraytools.odd_ext(x, n)
odd_ext(x, n) ==
    [i \in 1..(Len(x) + 2 * n) |->
        IF i <= n THEN 2 * x[1] - x[n - i + 2]
        ELSE IF i <= n + Len(x) THEN x[i - n]
        ELSE 2 * x[Len(x)] - x[2 * Len(x) + n - i]]

axis_reverse(x) == [i \in 1..Len(x) |-> x[Len(x) + 1 - i]]

\* mutant: one forward pass over the padded trace, no backward pass
sosfiltfilt_passes_forward_only(ext) ==
    sosfilt_from(ext, 1, sosfilt_zi[1] * ext[1], sosfilt_zi[2] * ext[1])

\* the forward pass, then the same pass over the reversed output, reversed again
sosfiltfilt_passes(ext) ==
    LET y == sosfilt_from(ext, 1, sosfilt_zi[1] * ext[1], sosfilt_zi[2] * ext[1])
        y_0 == y[Len(y)]
        back == sosfilt_from(axis_reverse(y), 1, sosfilt_zi[1] * y_0, sosfilt_zi[2] * y_0)
    IN  axis_reverse(back)

\* signal.sosfiltfilt(sos, x): padtype 'odd', padlen 3 * (2 * n_sections + 1);
\* a Butterworth bandpass of order N has N sections
sosfiltfilt(sos, x) ==
    LET edge == 3 * (2 * sos.N + 1)
    IN  IF sos.output # "sos" \/ Len(x) <= edge
        THEN Err("ValueError")
        ELSE LET ext == odd_ext([i \in 1..Len(x) |-> x[i] * FixedPoint], edge)
                 y == sosfiltfilt_passes(ext)
             IN  Ok([design |-> sos, passes |-> <<"forward", "backward">>,
                     n_samples |-> Len(x),
                     samples |-> [i \in 1..Len(x) |-> y[edge + i]]])

zero_phase_bandpass_filter(signal_data, freqmin, freqmax, sample_rate, filter_order) ==
    LET sos == butter(filter_order, <<freqmin, freqmax>>, "bandpass", "sos", sample_rate)
    IN  ExceptValueError(IF sos.raised THEN sos ELSE sosfiltfilt(sos.value, signal_data))

(***************************************************************************)
(* Wavelet estimation and deconvolution (core/signals/deconvolution.py)    *)
(*                                                                         *)
(* Samples are integers.  A vector of quotients is the record of its       *)
(* numerators num over one denominator den; den = 0 with a numerator 0 is  *)
(* the NaN of 0 / 0.                                                       *)
(***************************************************************************)
\* np.correlate(trace, trace, mode='full')[len(trace)-1:]: the lags 0, 1, ...
autocorrelation(trace) ==
    [lag \in 1..Len(trace) |->
        SumOver(1..(Len(trace) - lag + 1),
                [i \in 1..(Len(trace) - lag + 1) |-> trace[i] * trace[i + lag - 1]])]

\* a[:n]
Take(a, n) == [i \in 1..(IF n < Len(a) THEN n ELSE Len(a)) |-> a[i]]

\* scipy.linalg.toeplitz(c): the symmetric matrix with first column c
toeplitz(c) == [i \in 1..Len(c) |-> [j \in 1..Len(c) |-> c[Abs(i - j) + 1]]]

\* the matrix without its first row and its column j
Minor(A, j) ==
    [r \in 1..(Len(A) - 1) |->
        [c \in 1..(Len(A) - 1) |-> A[r + 1][IF c < j THEN c ELSE c + 1]]]

\* the determinant, by expansion along the first row
RECURSIVE Det(_)
Det(A) ==
    IF Len(A) = 0 THEN 1
    ELSE SumOver(1..Len(A),
                 [j \in 1..Len(A) |->
                     (IF j % 2 = 1 THEN 1 ELSE 0 - 1) * A[1][j] * Det(Minor(A, j))])

\* the matrix with column j replaced by the vector b
WithColumn(A, j, b) ==
    [r \in 1..Len(A) |-> [c \in 1..Len(A) |-> IF c = j THEN b[r] ELSE A[r][c]]]

\* np.linalg.solve(A, b): the shapes must agree and A must not be singular; the
\* solution is unique, component j is Det(A with column j replaced by b) / Det(A)
np_linalg_solve(A, b) ==
    IF Len(A) # Len(b)
    THEN Err("ValueError")
    ELSE IF Det(A) = 0
    THEN Err("LinAlgError")
    ELSE Ok([num |-> [j \in 1..Len(A) |-> Det(WithColumn(A, j, b))], den |-> Det(A)])

\* np.convolve(a, v, mode='full')[k], k 0-based
ConvolveFull(a, v, k) ==
    SumOver({ i \in 1..Len(a) : k + 2 - i >= 1 /\ k + 2 - i <= Len(v) },
            [i \in 1..Len(a) |-> IF k + 2 - i >= 1 /\ k + 2 - i <= Len(v)
                                 THEN a[i] * v[k + 2 - i] ELSE 0])

\* np.convolve(a, v, mode='same'): max(len(a), len(v)) values from the middle
\* of the full convolution
np_convolve_same(a, v) ==
    LET short == IF Len(a) < Len(v) THEN Len(a) ELSE Len(v)
        long == IF Len(a) < Len(v) THEN Len(v) ELSE Len(a)
    IN  [k \in 1..long |-> ConvolveFull(a, v, k - 1 + (short - 1) \div 2)]

\* np.correlate(a, v, mode='same') for real v no longer than a
np_correlate_same(a, v) == np_convolve_same(a, axis_reverse(v))

\* wavelet / np.max(np.abs(wavelet))
NormalizeByPeak(wavelet) == [num |-> wavelet, den |-> MaxAbs(wavelet)]

wavelet_autocorrelation(trace, wavelet_length) ==
    Ok(NormalizeByPeak(Take(autocorrelation(trace), wavelet_length)))

\* np.append(1, -wavelet), wavelet the solution of the Toeplitz system
wavelet_statistically(trace, wavelet_length) ==
    LET wavelet_autocorr == Take(autocorrelation(trace), wavelet_length)
        wavelet == np_linalg_solve(toeplitz(Take(wavelet_autocorr, Len(wavelet_autocorr) - 1)),
                                   Tail(wavelet_autocorr))
    IN  IF wavelet.raised
        THEN wavelet
        ELSE Ok([num |-> <<wavelet.value.den>>
                         \o [j \in 1..Len(wavelet.value.num) |-> 0 - wavelet.value.num[j]],
                 den |-> wavelet.value.den])

estimate_wavelet_matching_filter(trace, reflector) ==
    Ok(NormalizeByPeak(np_correlate_same(trace, reflector)))

\* filter_coeffs = np.linalg.solve(toeplitz(wavelet), np.zeros(wavelet_length))
Spiking_Deconvolution(trace, wavelet_length) ==
    LET wavelet == Take(autocorrelation(trace), wavelet_length)
        filter_coeffs == np_linalg_solve(toeplitz(wavelet), [j \in 1..wavelet_length |-> 0])
    IN  IF filter_coeffs.raised
        THEN filter_coeffs
        ELSE Ok([num |-> np_convolve_same(trace, filter_coeffs.value.num),
                 den |-> filter_coeffs.value.den])

(***************************************************************************)
(* Inputs of the array functions.                                          *)
(***************************************************************************)
\* The traces a matrix is drawn from: a dead trace, a constant trace, and two
\* traces whose samples are all different and tell the trace apart.
TraceChoices(i, m) ==
    { [j \in 1..m |-> 0],
      [j \in 1..m |-> 1],
      [j \in 1..m |-> 10 * i + j],
      [j \in 1..m |-> 0 - (10 * i + j)] }

Matrices ==
    UNION { UNION { { M \in [1..n -> UNION { TraceChoices(i, m) : i \in 1..n }] :
                        \A i \in 1..n : M[i] \in TraceChoices(i, m) }
                    : m \in 1..MaxSamples }
            : n \in 1..MaxTraces }

NoCall == [fn |-> "none", args |-> <<>>, raised |-> FALSE, ret |-> "none", den |-> 1]

CoreInit ==
    /\ heap \in { [caller |-> M, fresh |-> None] : M \in Matrices }
    /\ call = NoCall
    /\ given = heap["caller"]
    /\ NavIdle
    /\ EditorIdle

\* The caller invokes f once on its array; r is what the function did.
Invoke(fn, args, r) ==
    /\ call.fn = "none"
    /\ heap' = r.heap
    /\ call' = [fn |-> fn, args |-> args, raised |-> r.raised, ret |-> r.ret, den |-> r.den]
    /\ UNCHANGED given
    /\ UNCHANGED navVars
    /\ UNCHANGED edVars

Call_top_mute ==
    \E mute_time \in 0..MaxTime, sample_interval \in 1..MaxInterval :
        Invoke("top_mute",
               [mute_time |-> mute_time, sample_interval |-> sample_interval],
               top_mute(heap, "caller", mute_time, sample_interval))

Call_bottom_mute ==
    \E mute_time \in 0..MaxTime, sample_interval \in 1..MaxInterval :
        Invoke("bottom_mute",
               [mute_time |-> mute_time, sample_interval |-> sample_interval],
               bottom_mute(heap, "caller", mute_time, sample_interval))

\* The offsets a caller passes: one per trace, or one too few or too many.
OffsetValues == {1, 2, 3}
MuteOffsets == {2}

SeqsUpTo(S, n) == UNION { [1..k -> S] : k \in 0..n }

Call_offset_mute ==
    \E offsets \in SeqsUpTo(OffsetValues, n_traces(heap["caller"]) + 1), mute_offset \in MuteOffsets :
        Invoke("offset_mute",
               [offsets |-> offsets, mute_offset |-> mute_offset],
               offset_mute(heap, "caller", offsets, mute_offset))

Call_deep_zone_mute ==
    \E sample_interval \in 1..MaxInterval :
        Invoke("deep_zone_mute", [sample_interval |-> sample_interval],
               deep_zone_mute(heap, "caller", sample_interval))

\* the filter lengths of the wavelets haar, db2 and db4
FilterLens == {2, 4, 8}
Levels == {1, 2}

Call_wavelet_filter ==
    \E filter_len \in FilterLens, level \in Levels, strict \in BOOLEAN :
        Invoke("wavelet_filter",
               [filter_len |-> filter_len, level |-> level, strict |-> strict],
               wavelet_filter_by_trace(heap, "caller", filter_len, level, strict))

Call_time_variant_mute ==
    \E initial_time \in 0..MaxTime, final_time \in 0..MaxTime, sample_interval \in 1..MaxInterval :
        Invoke("time_variant_mute",
               [initial_time |-> initial_time, final_time |-> final_time,
                sample_interval |-> sample_interval],
               time_variant_mute(heap, "caller", initial_time, final_time, sample_interval))

Call_agc_gain ==
    \E window_size \in 1..(MaxSamples + 1) :
        Invoke("agc_gain", [window_size |-> window_size],
               agc_gain(heap, "caller", window_size))

TimeGradients == {1, 2}
GainFactors == {2, 3}

Call_tvg_gain ==
    \E time_gradient \in TimeGradients :
        Invoke("tvg_gain", [time_gradient |-> time_gradient],
               tvg_gain(heap, "caller", time_gradient))

Call_constant_gain ==
    \E gain_factor \in GainFactors :
        Invoke("constant_gain", [gain_factor |-> gain_factor],
               constant_gain(heap, "caller", gain_factor))

Call_annotate_traces ==
    \E flagged_indices \in SUBSET (0..(n_traces(heap["caller"]) - 1)) :
        Invoke("annotate_traces", [flagged_indices |-> flagged_indices],
               annotate_traces(heap, "caller", flagged_indices))

CoreNext ==
    \/ Call_top_mute
    \/ Call_bottom_mute
    \/ Call_offset_mute
    \/ Call_deep_zone_mute
    \/ Call_wavelet_filter
    \/ Call_time_variant_mute
    \/ Call_agc_gain
    \/ Call_tvg_gain
    \/ Call_constant_gain
    \/ Call_annotate_traces

SpecCore == CoreInit /\ [][CoreNext]_vars

(***************************************************************************)
(* Inputs and calls of the navigation functions.                           *)
(***************************************************************************)
BlankHeader == [SourceX |-> 0, SourceY |-> 0, GroupX |-> 0, GroupY |-> 0, offset |-> 0]

\* A file whose headers carry no coordinates yet.
BlankFiles == { [t \in 1..n |-> BlankHeader] : n \in 1..MaxTraces }

\* A file whose trace t carries, in each source word, either 0 (missing) or a
\* value that names the trace, and either no receiver position or one.
HeaderChoices(t) ==
    { [SourceX |-> sx, SourceY |-> sy, GroupX |-> g[1], GroupY |-> g[2], offset |-> 0] :
        sx \in {0, t}, sy \in {0, 10 + t}, g \in { <<0, 0>>, <<20 + t, 30 + t>> } }

RECURSIVE FilesOf(_)
FilesOf(n) == IF n = 0 THEN { <<>> }
              ELSE { Append(f, hdr) : f \in FilesOf(n - 1), hdr \in HeaderChoices(n) }

SurveyFiles == UNION { FilesOf(n) : n \in 1..MaxTraces }

\* Coordinate lists of a given length: sources (k, 2k), receivers 3 east and 4
\* north of the source.
SourceList(len) == [k \in 1..len |-> <<k, 2 * k>>]
ReceiverList(len) == [k \in 1..len |-> <<k + 3, 2 * k + 4>>]

\* The ship position of record i: the step from one record to the next differs
\* from record to record.
Position(i) == <<i * i, 2 * i>>

\* A cable longer than, as long as, and shorter than the depth.
Geometries == { <<5, 3>>, <<5, 5>>, <<3, 5>> }
SheaveOffsets == {2}

\* the rows record i of a table may be
Rows(i) == { [X_ship |-> Position(i)[1], Y_ship |-> Position(i)[2], cable_length |-> g[1],
              depth |-> g[2], sheave_offset |-> s] : g \in Geometries, s \in SheaveOffsets }

RECURSIVE Tracks(_)
Tracks(n) == IF n = 0 THEN { <<>> }
             ELSE { Append(t, r) : t \in Tracks(n - 1), r \in Rows(n) }

BaseColumns == {"X_ship", "Y_ship", "cable_length", "depth", "sheave_offset"}

\* Tables with and without a Heading column; the heading supplied for record i
\* is 100 + i.
Tables ==
    UNION { { [columns |-> BaseColumns, rows |-> r, Heading |-> <<>>] : r \in Tracks(n) }
            \cup { [columns |-> BaseColumns \cup {"Heading"}, rows |-> r,
                    Heading |-> [i \in 1..n |-> 100 + i]] : r \in Tracks(n) }
            : n \in 0..MaxTrack }

CoreIdle ==
    /\ heap = [caller |-> None, fresh |-> None]
    /\ call = NoCall
    /\ given = None

NavInvoke(fn, args, r) ==
    /\ navcall.fn = "none"
    /\ navcall' = [fn |-> fn, args |-> args, raised |-> r.raised, error |-> r.error,
                   value |-> r.value, computed |-> r.computed]
    /\ segy' = r.segy
    /\ UNCHANGED segy_given
    /\ UNCHANGED coreVars
    /\ UNCHANGED edVars

ShipInit ==
    /\ segy \in BlankFiles
    /\ segy_given = segy
    /\ navcall = NoNavCall
    /\ CoreIdle
    /\ EditorIdle

Call_calculate_layback ==
    \E cable_length \in 0..MaxLen, depth \in 0..MaxLen :
        LET r == calculate_layback(cable_length, depth)
        IN  NavInvoke("calculate_layback", [cable_length |-> cable_length, depth |-> depth],
                      [raised |-> r.raised, error |-> r.error, value |-> r.value,
                       segy |-> segy, computed |-> <<>>])

Call_calculate_total_offset ==
    \E row \in UNION { Rows(i) : i \in 1..MaxTrack } :
        LET r == calculate_total_offset(row)
        IN  NavInvoke("calculate_total_offset", [row |-> row],
                      [raised |-> r.raised, error |-> r.error, value |-> r.value,
                       segy |-> segy, computed |-> <<>>])

Call_ship_to_sbp_nav ==
    \E navigation_df \in Tables :
        NavInvoke("ship_to_sbp_nav", [navigation_df |-> navigation_df],
                  ship_to_sbp_nav(navigation_df, segy))

ShipNext ==
    \/ Call_calculate_layback
    \/ Call_calculate_total_offset
    \/ Call_ship_to_sbp_nav

SpecShip == ShipInit /\ [][ShipNext]_vars

SegyInit ==
    /\ segy \in SurveyFiles
    /\ segy_given = segy
    /\ navcall = NoNavCall
    /\ CoreIdle
    /\ EditorIdle

Call_load_Nav_data_from_segyfile ==
    LET r == load_Nav_data_from_segyfile(segy)
    IN  NavInvoke("load_Nav_data_from_segyfile", <<>>,
                  [raised |-> r.raised, error |-> r.error, value |-> r.value,
                   segy |-> r.segy, computed |-> <<>>])

Call_assign_geometry ==
    \E ns \in 0..(Len(segy) + 1), nr \in 0..(Len(segy) + 1) :
        LET r == assign_geometry(segy, SourceList(ns), ReceiverList(nr))
        IN  NavInvoke("assign_geometry",
                      [source_coords |-> SourceList(ns), receiver_coords |-> ReceiverList(nr)],
                      [raised |-> r.raised, error |-> r.error, value |-> r.value,
                       segy |-> r.segy, computed |-> <<>>])

Call_assign_sbp_coords_to_segy ==
    \E ns \in 0..(Len(segy) + 1) :
        LET r == assign_sbp_coords_to_segy(segy, SourceList(ns))
        IN  NavInvoke("assign_sbp_coords_to_segy", [sbp_coords |-> SourceList(ns)],
                      [raised |-> r.raised, error |-> r.error, value |-> r.value,
                       segy |-> r.segy, computed |-> <<>>])

SegyNext ==
    \/ Call_load_Nav_data_from_segyfile
    \/ Call_assign_geometry
    \/ Call_assign_sbp_coords_to_segy

SpecSegy == SegyInit /\ [][SegyNext]_vars

(***************************************************************************)
(* SeismicEditor (ui/seismic_editor.py)                                    *)
(*                                                                         *)
(* The editor holds references to arrays.  An array is a record: kind      *)
(* "matrix" has its samples m over the common denominator den; kind "term" *)
(* is the array a function fn returned for the array with the reference    *)
(* of, for the functions whose samples are not computed here (the filters, *)
(* the deconvolutions, the AGC quotient).  Whether a function raises on a  *)
(* term is left open.                                                      *)
(***************************************************************************)
Matrix(m, den) == [kind |-> "matrix", m |-> m, den |-> den, fn |-> "", of |-> 0]
Term(fn, a) == [kind |-> "term", m |-> <<>>, den |-> 1, fn |-> fn, of |-> a]

\* the cells a function sees when it is passed array a
Cells(arrs, a) == [caller |-> arrs[a].m, fresh |-> None]

\* The editor after f(array a), o being the outcome of f on Cells(arrs, a): array
\* a holds what f left in the caller's cell, and the array f returns is a itself
\* or a new one.  keep says that the samples f computed are held.
Evaluated(arrs, a, o, fn, keep) ==
    LET after == [arrs EXCEPT ![a] = Matrix(o.heap["caller"], @.den)]
    IN  IF o.raised
        THEN [arrays |-> after, raised |-> TRUE, ret |-> 0]
        ELSE IF o.ret = "caller"
        THEN [arrays |-> after, raised |-> FALSE, ret |-> a]
        ELSE [arrays |-> Append(after, IF keep THEN Matrix(o.heap[o.ret], arrs[a].den * o.den)
                                               ELSE Term(fn, a)),
              raised |-> FALSE, ret |-> Len(arrs) + 1]

\* The editor after f(array a) for a function that is not evaluated.
Unevaluated(arrs, a, fn, raised) ==
    IF raised
    THEN [arrays |-> arrs, raised |-> TRUE, ret |-> 0]
    ELSE [arrays |-> Append(arrs, Term(fn, a)), raised |-> FALSE, ret |-> Len(arrs) + 1]

\* a call that fails before it touches an array
NoArray == [arrays |-> arrays, raised |-> TRUE, ret |-> 0]

\* self.processed_data if self.processed_data is not None else self.data
data_to_process == IF self_processed_data # 0 THEN self_processed_data ELSE self_data

\* The matrix the parser delivers: trace i holds the samples 10 i + 1, 10 i + 2, ...
ParsedMatrix == [i \in 1..MaxTraces |-> [j \in 1..MaxSamples |-> 10 * i + j]]

\* mute times a user enters, in ticks
EditorTimes == {1, MaxTime}

\* AGC windows a user enters: one that fits a trace and one that does not
EditorWindows == {1, MaxSamples + 1}

\* the gradient and the factor a user enters
EditorGradients == {1}
EditorFactors == {2}

\* the functions handed to apply_procces_method
ProcessFuncs == {"IIR_Filters.bandpass_filter", "FIR_Filters.fk_filter",
                 "Deconvolution.predictive_deconvolution", "Deconvolution.wiener_deconvolution"}

\* on_parsing_finished: self.data and self.sample_interval are set
on_parsing_finished ==
    /\ self_data = 0
    /\ \E si \in 1..MaxInterval :
          /\ arrays' = Append(arrays, Matrix(ParsedMatrix, 1))
          /\ self_data' = Len(arrays) + 1
          /\ self_sample_interval' = si
          /\ loaded' = Matrix(ParsedMatrix, 1)
    /\ UNCHANGED <<self_processed_data, workers, events, started, failed>>
    /\ UNCHANGED <<asked, coreVars, navVars>>

\* self.processed_data = f(...): the assignment is made only when f returns
Slot(r) ==
    /\ arrays' = r.arrays
    /\ self_processed_data' = IF r.raised THEN self_processed_data ELSE r.ret
    /\ started' = started + 1
    /\ failed' = IF r.raised THEN failed + 1 ELSE failed
    /\ UNCHANGED <<self_data, self_sample_interval, loaded, workers, events>>
    /\ UNCHANGED <<asked, coreVars, navVars>>

\* the cells the function called by a slot sees
h_slot == Cells(arrays, data_to_process)

\* a slot that calls f on data_to_process; o is the outcome of f on h_slot
Run(fn, o, keep, raises) ==
    /\ started < MaxOps
    /\ IF data_to_process = 0
       THEN Slot(NoArray)
       ELSE IF arrays[data_to_process].kind = "matrix"
       THEN Slot(Evaluated(arrays, data_to_process, o, fn, keep))
       ELSE \E b \in raises : Slot(Unevaluated(arrays, data_to_process, fn, b))

apply_gain ==
    \/ \E param1 \in EditorWindows :
          Run("agc_gain", agc_gain(h_slot, "caller", param1), FALSE, BOOLEAN)
    \/ \E param1 \in EditorGradients :
          Run("tvg_gain", tvg_gain(h_slot, "caller", param1), TRUE, {FALSE})
    \/ \E param1 \in EditorFactors :
          Run("constant_gain", constant_gain(h_slot, "caller", param1), TRUE, {FALSE})

apply_top_mute ==
    \E mute_time \in EditorTimes :
        Run("top_mute", top_mute(h_slot, "caller", mute_time, self_sample_interval),
            TRUE, {FALSE})

apply_bottom_mute ==
    \E mute_time \in EditorTimes :
        Run("bottom_mute", bottom_mute(h_slot, "caller", mute_time, self_sample_interval),
            TRUE, {FALSE})

apply_time_variant_mute ==
    \E initial_time \in EditorTimes, final_time \in EditorTimes :
        Run("time_variant_mute",
            time_variant_mute(h_slot, "caller", initial_time, final_time, self_sample_interval),
            TRUE, BOOLEAN)

apply_SZ_mute ==
    Run("shallow_zone_mute", shallow_zone_mute(h_slot, "caller", self_sample_interval),
        TRUE, {FALSE})

apply_DW_mute ==
    Run("marine_direct_wave_mute",
        marine_direct_wave_mute(h_slot, "caller", self_sample_interval), TRUE, {FALSE})

apply_DZ_mute ==
    Run("deep_zone_mute", deep_zone_mute(h_slot, "caller", self_sample_interval),
        TRUE, {FALSE})

\* interactive_mute is a staticmethod declared with self: called on the instance
\* with (ax, data) it lacks an argument and raises TypeError
apply_userinteractive_mute ==
    /\ started < MaxOps
    /\ Slot(NoArray)

\* ProcessWorker.__init__(process_func, data, *args): pc, result, i, emitted and
\* raised follow the thread through run
ProcessWorker_init(process_func, data) ==
    [process_func |-> process_func, data |-> data, pc |-> "start", result |-> 0, i |-> 0,
     emitted |-> <<>>, raised |-> FALSE]

\* apply_procces_method: with data, a worker is started on data_to_process
apply_procces_method ==
    /\ started < MaxOps
    /\ \E process_func \in ProcessFuncs :
          IF data_to_process = 0
          THEN Slot(NoArray)
          ELSE /\ workers' = Append(workers, ProcessWorker_init(process_func, data_to_process))
               /\ started' = started + 1
               /\ UNCHANGED <<arrays, self_data, self_processed_data, self_sample_interval,
                              loaded, events, failed>>
               /\ UNCHANGED <<asked, coreVars, navVars>>

\* ProcessWorker.run: the function is called on the whole array or trace by
\* trace; the result is a new array, emitted with finished; an exception is
\* emitted with error
ProcessWorker_run ==
    \E w \in 1..Len(workers), raised \in BOOLEAN :
        LET r == Unevaluated(arrays, workers[w].data, workers[w].process_func, raised)
        IN  /\ arrays' = r.arrays
            /\ events' = Append(events, IF raised
                                        THEN [signal |-> "error", result |-> 0]
                                        ELSE [signal |-> "finished", result |-> r.ret])
            /\ workers' = [k \in 1..(Len(workers) - 1) |->
                              IF k < w THEN workers[k] ELSE workers[k + 1]]
            /\ UNCHANGED <<self_data, self_processed_data, self_sample_interval, loaded,
                           started, failed>>
            /\ UNCHANGED <<asked, coreVars, navVars>>

\* the slot connected to finished
on_method_finished ==
    /\ events # <<>>
    /\ Head(events).signal = "finished"
    /\ self_processed_data' = Head(events).result
    /\ events' = Tail(events)
    /\ UNCHANGED <<arrays, self_data, self_sample_interval, loaded, workers, started, failed>>
    /\ UNCHANGED <<asked, coreVars, navVars>>

\* the slot connected to error
show_error ==
    /\ events # <<>>
    /\ Head(events).signal = "error"
    /\ events' = Tail(events)
    /\ failed' = failed + 1
    /\ UNCHANGED <<arrays, self_data, self_processed_data, self_sample_interval, loaded,
                   workers, started>>
    /\ UNCHANGED <<asked, coreVars, navVars>>

(***************************************************************************)
(* The filter slots that collect their parameters with get_filter_params.  *)
(*                                                                         *)
(* self.sample_rate is 1 / self.sample_interval.  A frequency entered in a *)
(* dialog is a whole number of eighths of a cycle per tick, so that the    *)
(* Nyquist frequency of a 1-tick interval is 4 and of a 2-tick one is 2.   *)
(***************************************************************************)
\* freq >= sample_rate / 2, with sample_rate = 1 / sample_interval
AtOrAboveNyquist(freq, sample_interval) == 2 * freq * sample_interval >= 8

\* self.show_error(message): show_error is declared (self, title, message)
show_error_without_title == Err("TypeError")

\* mutant: the dialog is shown and validate_filter_params returns
validate_filter_params_shown(order, freq, sample_interval, bandpass, freqmax) == Ok("shown")

\* validate_filter_params(order, freq, self.sample_rate, filter_type, bandpass, freqmax)
validate_filter_params(order, freq, sample_interval, bandpass, freqmax) ==
    IF sample_interval = 0
    THEN Err("TypeError")                    \* nyquist = None / 2
    ELSE IF order < 1 \/ order > 100
    THEN show_error_without_title
    ELSE IF freq <= 0 \/ AtOrAboveNyquist(freq, sample_interval)
    THEN show_error_without_title
    ELSE IF bandpass /\ (freqmax <= freq \/ AtOrAboveNyquist(freqmax, sample_interval))
    THEN show_error_without_title
    ELSE Ok("valid")

\* get_filter_params(bandpass, filter_type): a cancelled dialog calls
\* self.show_error(message) as well
get_filter_params(order, freq, freqmax, bandpass, cancelled) ==
    IF cancelled \in {"order", "freq"} \/ (bandpass /\ cancelled = "freqmax")
    THEN show_error_without_title
    ELSE validate_filter_params(order, freq, self_sample_interval, bandpass, freqmax)

\* get_chebyshev_ripple: raise ValueError("No ripple provided") when cancelled
get_chebyshev_ripple(cancelled) ==
    IF cancelled = "ripple" THEN Err("ValueError") ELSE Ok("ripple")

\* QInputDialog.getInt(..., 4, 1, 100, 1): the default order and the smallest
Orders == {1, 4}

\* the dialogs a user may cancel
Dialogs == {"none", "order", "freq", "freqmax", "ripple"}

\* frequencies a user enters: zero, and values below, at and above Nyquist
EditorFreqs == {0, 1, 3, 4}

\* what a user does with the dialogs: every combination of values with no
\* dialog cancelled, and each dialog cancelled once
Entries ==
    { [order |-> order, freq |-> freq, freqmax |-> freqmax, cancelled |-> "none"] :
        order \in Orders, freq \in EditorFreqs, freqmax \in EditorFreqs }
    \cup { [order |-> 4, freq |-> 1, freqmax |-> 3, cancelled |-> c] : c \in Dialogs \ {"none"} }

\* try: params = get_filter_params(...); ripple = get_chebyshev_ripple();
\* apply_procces_method(func, ...) except ValueError: show_error(title, message)
ChebySlot(slot, process_func, bandpass) ==
    /\ started < MaxOps
    /\ \E entered \in Entries :
          LET order == entered.order
              freq == entered.freq
              freqmax == entered.freqmax
              cancelled == entered.cancelled
              params == get_filter_params(order, freq, freqmax, bandpass, cancelled)
              ripple == IF params.raised THEN params ELSE get_chebyshev_ripple(cancelled)
          IN  /\ asked' = [slot |-> slot, request |-> started + 1, order |-> order,
                           freq |-> freq, freqmax |-> IF bandpass THEN freqmax ELSE 0,
                           bandpass |-> bandpass, cancelled |-> cancelled]
              /\ started' = started + 1
              /\ IF ripple.raised \/ data_to_process = 0
                 THEN /\ failed' = failed + 1
                      /\ UNCHANGED workers
                 ELSE /\ workers' = Append(workers,
                                            ProcessWorker_init(process_func, data_to_process))
                      /\ UNCHANGED failed
    /\ UNCHANGED <<arrays, self_data, self_processed_data, self_sample_interval, loaded, events>>
    /\ UNCHANGED <<coreVars, navVars>>

apply_cheby_bandpass_filter ==
    ChebySlot("apply_cheby_bandpass_filter", "IIR_Filters.cheby2_bandpass_filter", TRUE)

apply_cheby_highpass_filter ==
    ChebySlot("apply_cheby_highpass_filter", "IIR_Filters.cheby2_highpass_filter", FALSE)

apply_cheby_lowpass_filter ==
    ChebySlot("apply_cheby_lowpass_filter", "IIR_Filters.cheby2_lowpass_filter", FALSE)

EditorInit ==
    /\ EditorIdle
    /\ CoreIdle
    /\ NavIdle

EditorNext ==
    \/ on_parsing_finished
    \/ apply_gain
    \/ apply_top_mute
    \/ apply_bottom_mute
    \/ apply_time_variant_mute
    \/ apply_SZ_mute
    \/ apply_DW_mute
    \/ apply_DZ_mute
    \/ apply_userinteractive_mute
    \/ apply_procces_method
    \/ ProcessWorker_run
    \/ on_method_finished
    \/ show_error

SpecEditor == EditorInit /\ [][EditorNext]_vars

\* the editor with its Chebyshev filter slots and the workers they start
FilterNext ==
    \/ on_parsing_finished
    \/ apply_cheby_bandpass_filter
    \/ apply_cheby_highpass_filter
    \/ apply_cheby_lowpass_filter
    \/ ProcessWorker_run
    \/ on_method_finished
    \/ show_error

SpecFilterSlots == EditorInit /\ [][FilterNext]_vars

(***************************************************************************)
(* ProcessWorker.run, statement by statement.                              *)
(*                                                                         *)
(* A worker is a record: process_func and data as given to __init__, pc    *)
(* the position of its thread in run, result the number of traces the list *)
(* built at line 177 holds, i the number of progress emissions made,       *)
(* emitted the signals it has emitted in order, raised whether run entered *)
(* its except clause.  A worker that returned stays in the list.           *)
(***************************************************************************)
\* the functions run applies to the whole 2D array
WholeMatrixFuncs == {"FIR_Filters.fk_filter", "Deconvolution.wiener_deconvolution"}

\* a process_func for which callable() is false
NotCallable == "None"

\* the process_func values a worker is constructed with
WorkerFuncs == {"IIR_Filters.bandpass_filter", "FIR_Filters.fk_filter", NotCallable}

\* the number of worker threads constructed in one behaviour
WorkerRuns == 3

\* len(self.data) of array a
RECURSIVE len_data(_)
len_data(a) == IF arrays[a].kind = "matrix" THEN Len(arrays[a].m) ELSE len_data(arrays[a].of)

\* worker = ProcessWorker(process_func, data, *args); finished and error are
\* connected; worker.start()
ProcessWorker_start ==
    /\ data_to_process # 0
    /\ Len(workers) < WorkerRuns
    /\ \E process_func \in WorkerFuncs :
          workers' = Append(workers, ProcessWorker_init(process_func, data_to_process))
    /\ started' = started + 1
    /\ UNCHANGED <<arrays, self_data, self_processed_data, self_sample_interval, loaded,
                   events, failed>>
    /\ UNCHANGED <<asked, coreVars, navVars>>

\* what a step of a worker thread leaves alone
WorkerFrame ==
    /\ UNCHANGED <<self_data, self_processed_data, self_sample_interval, loaded, started,
                   failed>>
    /\ UNCHANGED <<asked, coreVars, navVars>>

\* mutant: the exception is swallowed and run returns
run_except_silent(w) ==
    /\ workers' = [workers EXCEPT ![w].pc = "returned", ![w].raised = TRUE]
    /\ UNCHANGED <<arrays, events>>
    /\ WorkerFrame

\* except Exception as e: self.error.emit(str(e)), and run returns
run_except(w) ==
    /\ workers' = [workers EXCEPT ![w].pc = "returned", ![w].raised = TRUE,
                                  ![w].emitted = Append(@, "error")]
    /\ events' = Append(events, [signal |-> "error", result |-> 0, traces |-> 0])
    /\ UNCHANGED arrays
    /\ WorkerFrame

\* mutant: the list is taken as built after its first trace
ListBuilt_first(done, n) == done >= 1

\* [process_func(trace, *args) for trace in self.data] has run over every trace
ListBuilt(done, n) == done = n

\* if not callable(process_func): raise; the call on the whole array for
\* fk_filter and wiener_deconvolution; otherwise the list comprehension begins
run_begin(w) ==
    /\ workers[w].pc = "start"
    /\ IF workers[w].process_func = NotCallable
       THEN run_except(w)
       ELSE IF workers[w].process_func \in WholeMatrixFuncs
       THEN \E raised \in BOOLEAN :
               IF raised
               THEN run_except(w)
               ELSE /\ workers' = [workers EXCEPT ![w].pc = "finish",
                                                  ![w].result = len_data(workers[w].data)]
                    /\ UNCHANGED <<arrays, events>>
                    /\ WorkerFrame
       ELSE /\ workers' = [workers EXCEPT ![w].pc = "loop"]
            /\ UNCHANGED <<arrays, events>>
            /\ WorkerFrame

\* process_func(trace, *args) for the next trace: it returns or it raises
run_trace(w) ==
    /\ workers[w].pc = "loop"
    /\ \E raised \in BOOLEAN :
          IF raised
          THEN run_except(w)
          ELSE /\ workers' =
                     [workers EXCEPT
                         ![w].result = @ + 1,
                         ![w].pc = IF ListBuilt(workers[w].result + 1, len_data(workers[w].data))
                                   THEN "progress" ELSE "loop"]
               /\ UNCHANGED <<arrays, events>>
               /\ WorkerFrame

\* for i, trace in enumerate(self.data): self.progress.emit(...); progress is
\* connected to no slot
run_progress(w) ==
    /\ workers[w].pc = "progress"
    /\ workers' =
          [workers EXCEPT
              ![w].i = @ + 1,
              ![w].emitted = Append(@, "progress"),
              ![w].pc = IF workers[w].i + 1 = len_data(workers[w].data)
                        THEN "finish" ELSE "progress"]
    /\ UNCHANGED <<arrays, events>>
    /\ WorkerFrame

\* self.finished.emit(result): the result is a new array, and run returns
run_finished(w) ==
    /\ workers[w].pc = "finish"
    /\ arrays' = Append(arrays, Term(workers[w].process_func, workers[w].data))
    /\ events' = Append(events, [signal |-> "finished", result |-> Len(arrays) + 1,
                                 traces |-> workers[w].result])
    /\ workers' = [workers EXCEPT ![w].pc = "returned", ![w].emitted = Append(@, "finished")]
    /\ WorkerFrame

\* one statement of one worker thread
ProcessWorker_step ==
    \E w \in 1..Len(workers) :
        \/ run_begin(w)
        \/ run_trace(w)
        \/ run_progress(w)
        \/ run_finished(w)

\* worker threads and the editor's slots connected to their signals
WorkerNext ==
    \/ on_parsing_finished
    \/ ProcessWorker_start
    \/ ProcessWorker_step
    \/ on_method_finished
    \/ show_error

SpecWorker == EditorInit /\ [][WorkerNext]_vars

(***************************************************************************)
(* Claims about the array functions, checked under SpecCore.               *)
(***************************************************************************)
IsZeroTrace(t) == \A j \in 1..Len(t) : t[j] = 0
HasNoZero(M) == \A i \in 1..Len(M) : \A j \in 1..Len(M[i]) : M[i][j] # 0
SameShape(A, B) == Len(A) = Len(B) /\ \A i \in 1..Len(A) : Len(A[i]) = Len(B[i])

\* C1: top_mute returns an array in which, in every trace, exactly the samples
\* with index < floor(mute_time / sample_interval) are zero and every sample at
\* or after that index equals the sample of the array passed in.
C1_TopMuteBoundary ==
    call.fn = "top_mute" =>
        /\ ~call.raised
        /\ LET k == call.args.mute_time \div call.args.sample_interval
               out == heap[call.ret]
           IN  /\ SameShape(out, given)
               /\ \A i \in 1..Len(given) : \A j \in 0..(Len(given[i]) - 1) :
                     out[i][j + 1] = IF j < k THEN 0 ELSE given[i][j + 1]

\* A top mute that cuts strictly inside a two-trace matrix without zero samples.
C1_Witness ==
    /\ call.fn = "top_mute" /\ ~call.raised
    /\ Len(given) = 2 /\ HasNoZero(given)
    /\ LET k == call.args.mute_time \div call.args.sample_interval
       IN  /\ 0 < k /\ k < Len(given[1])
           /\ \A i \in 1..2 : heap[call.ret][i][k] = 0 /\ heap[call.ret][i][k + 1] # 0

CoreFunctions == {"top_mute", "bottom_mute", "offset_mute", "time_variant_mute",
                  "agc_gain", "tvg_gain", "constant_gain", "annotate_traces"}

\* C2: after a call of any of the eight array functions, whether it returned or
\* raised, the caller's array holds what it held when it was passed in, and a
\* returned result is an array other than the caller's.
C2_InputNotMutated ==
    call.fn \in CoreFunctions =>
        /\ heap["caller"] = given
        /\ ~call.raised => call.ret = "fresh"

\* A top mute that zeroed samples of its result: the result differs from the input.
C2_Witness ==
    /\ call.fn = "top_mute" /\ ~call.raised
    /\ heap[call.ret] # given
    /\ heap["caller"] = given

\* C10: offset_mute, given one offset per trace, returns an array in which every
\* trace i with offsets[i] > mute_offset is all zero and every trace with
\* offsets[i] <= mute_offset equals the trace passed in.
C10_OffsetMute ==
    (call.fn = "offset_mute" /\ Len(call.args.offsets) = Len(given)) =>
        /\ ~call.raised
        /\ SameShape(heap[call.ret], given)
        /\ \A i \in 1..Len(given) :
              IF call.args.offsets[i] > call.args.mute_offset
              THEN IsZeroTrace(heap[call.ret][i])
              ELSE heap[call.ret][i] = given[i]

\* Two traces without zero samples, the first at the threshold offset (kept), the
\* second beyond it (muted).
C10_Witness ==
    /\ call.fn = "offset_mute" /\ ~call.raised
    /\ Len(given) = 2 /\ HasNoZero(given)
    /\ call.args.offsets = <<call.args.mute_offset, call.args.mute_offset + 1>>
    /\ heap[call.ret][1] = given[1]
    /\ IsZeroTrace(heap[call.ret][2])

(***************************************************************************)
(* Claims about the ship navigation, checked under SpecShip.               *)
(***************************************************************************)
ValidRow(row) == row.cable_length >= row.depth /\ row.depth >= 0

\* C4: for cable_length >= depth >= 0 calculate_layback returns the non-negative
\* root L with L^2 + depth^2 = cable_length^2, and calculate_total_offset
\* returns sheave_offset + L.
C4_Layback ==
    /\ (navcall.fn = "calculate_layback"
        /\ navcall.args.cable_length >= navcall.args.depth
        /\ navcall.args.depth >= 0)
       => /\ ~navcall.raised
          /\ ~navcall.value.nan
          /\ navcall.value.radicand >= 0
          /\ navcall.value.radicand + navcall.args.depth * navcall.args.depth
                = navcall.args.cable_length * navcall.args.cable_length
    /\ (navcall.fn = "calculate_total_offset" /\ ValidRow(navcall.args.row))
       => /\ ~navcall.raised
          /\ navcall.value.plus = navcall.args.row.sheave_offset
          /\ ~navcall.value.root.nan
          /\ navcall.value.root.radicand + navcall.args.row.depth * navcall.args.row.depth
                = navcall.args.row.cable_length * navcall.args.row.cable_length

\* the 3-4-5 triangle: cable 5, depth 3, layback sqrt(16)
C4_Witness ==
    /\ navcall.fn = "calculate_layback"
    /\ navcall.args.cable_length = 5
    /\ navcall.args.depth = 3
    /\ ~navcall.raised
    /\ navcall.value.radicand = 16

\* the rows of a table that ship_to_sbp_nav passes to calculate_total_offset
PassedRows(df) == 1..(Len(df.rows) - 1)

\* C5: calculate_layback raises whenever cable_length < depth; the error leaves
\* calculate_total_offset and ship_to_sbp_nav, and no header of the file has
\* been written by then; cable_length = depth is no error and gives layback 0.
C5_LaybackError ==
    /\ (navcall.fn = "calculate_layback" /\ navcall.args.cable_length < navcall.args.depth)
       => navcall.raised /\ navcall.error = LaybackError
    /\ (navcall.fn = "calculate_layback" /\ navcall.args.cable_length = navcall.args.depth)
       => ~navcall.raised /\ navcall.value.radicand = 0 /\ ~navcall.value.nan
    /\ (navcall.fn = "calculate_total_offset" /\ ~ValidRow(navcall.args.row))
       => navcall.raised /\ navcall.error = LaybackError
    /\ (navcall.fn = "ship_to_sbp_nav"
        /\ \E i \in PassedRows(navcall.args.navigation_df) :
              ~ValidRow(navcall.args.navigation_df.rows[i]))
       => navcall.raised /\ navcall.error = LaybackError /\ segy = segy_given

\* a track whose second record has a cable shorter than the depth: one point
\* has been computed when the error leaves ship_to_sbp_nav
C5_Witness ==
    /\ navcall.fn = "ship_to_sbp_nav"
    /\ navcall.raised
    /\ navcall.error = LaybackError
    /\ Len(navcall.computed) = 1
    /\ segy = segy_given

\* the point computed from record i of the table
FromRecord(c, df, i) ==
    /\ c.X_ship = df.rows[i].X_ship
    /\ c.Y_ship = df.rows[i].Y_ship
    /\ c.total_offset = calculate_total_offset(df.rows[i]).value

\* C6: for a track of n >= 1 records with valid geometry ship_to_sbp_nav returns,
\* without raising, exactly n points, the i-th computed from the i-th record.
C6_OnePointPerRecord ==
    (navcall.fn = "ship_to_sbp_nav"
     /\ Len(navcall.args.navigation_df.rows) >= 1
     /\ \A i \in 1..Len(navcall.args.navigation_df.rows) :
           ValidRow(navcall.args.navigation_df.rows[i]))
    => /\ ~navcall.raised
       /\ Len(navcall.value) = Len(navcall.args.navigation_df.rows)
       /\ \A i \in 1..Len(navcall.value) :
             FromRecord(navcall.value[i], navcall.args.navigation_df, i)

\* the heading the rule of C7 prescribes for record i
HeadingOf(df, i) ==
    IF "Heading" \in df.columns
    THEN HeadingColumn(df, i)
    ELSE calculate_heading(<<df.rows[i].X_ship, df.rows[i].Y_ship>>,
                           <<df.rows[i + 1].X_ship, df.rows[i + 1].Y_ship>>)

\* the records the rule of C7 speaks of: all of them when headings are supplied,
\* those with a successor when the heading is taken from two positions
HeadingRecords(df) ==
    IF "Heading" \in df.columns THEN 1..Len(df.rows) ELSE 1..(Len(df.rows) - 1)

\* C7: in ship_to_sbp_nav a point is computed for every record, with the heading
\* supplied in the Heading column when there is one, and else with the heading
\* arctan2(dy, dx) from the record's ship position to the next.
C7_HeadingUsed ==
    (navcall.fn = "ship_to_sbp_nav"
     /\ Len(navcall.args.navigation_df.rows) >= 1
     /\ \A i \in 1..Len(navcall.args.navigation_df.rows) :
           ValidRow(navcall.args.navigation_df.rows[i]))
    => \A i \in HeadingRecords(navcall.args.navigation_df) :
          /\ i <= Len(navcall.computed)
          /\ navcall.computed[i].ship_heading = HeadingOf(navcall.args.navigation_df, i)

(***************************************************************************)
(* Claims about the SEG-Y headers, checked under SpecSegy.                 *)
(***************************************************************************)
\* C8: every pair load_Nav_data_from_segyfile returns is the (SourceX, SourceY)
\* of one trace, and the pairs come in the order of their traces.
C8_PairsFromOneTrace ==
    navcall.fn = "load_Nav_data_from_segyfile"
    => \E f \in [1..Len(navcall.value) -> 1..Len(segy)] :
          /\ \A k \in 1..Len(navcall.value) :
                navcall.value[k] = <<segy[f[k]].SourceX, segy[f[k]].SourceY>>
          /\ \A k \in 1..Len(navcall.value), l \in 1..Len(navcall.value) :
                k < l => f[k] < f[l]

\* the call is about a mismatch of the coordinate count and the trace count
CountMismatch ==
    \/ /\ navcall.fn = "assign_geometry"
       /\ \/ Len(navcall.args.source_coords) # Len(segy_given)
          \/ Len(navcall.args.receiver_coords) # Len(segy_given)
    \/ /\ navcall.fn = "assign_sbp_coords_to_segy"
       /\ Len(navcall.args.sbp_coords) # Len(segy_given)

\* C9: on a mismatch of a coordinate count and the trace count assign_geometry
\* and assign_sbp_coords_to_segy raise, and no header of any trace is written.
C9_MismatchBeforeWrite ==
    CountMismatch => navcall.raised /\ segy = segy_given

\* as many sources as traces, fewer receivers, and at least one receiver: a
\* write loop started on these lists would have written the first trace
C9_Witness ==
    /\ navcall.fn = "assign_geometry"
    /\ Len(navcall.args.source_coords) = Len(segy_given)
    /\ Len(navcall.args.receiver_coords) >= 1
    /\ Len(navcall.args.receiver_coords) < Len(segy_given)
    /\ navcall.raised
    /\ segy = segy_given

C11_OffsetCountChecked ==
    (call.fn = "offset_mute" /\ Len(call.args.offsets) # Len(given)) => call.raised

\* C12: bottom_mute returns an array in which, in every trace, exactly the
\* samples with index >= floor(mute_time / sample_interval) are zero and every
\* earlier sample equals the sample of the array passed in, for every
\* mute_time >= 0, also one past the end of the trace.
C12_BottomMuteBoundary ==
    call.fn = "bottom_mute" =>
        /\ ~call.raised
        /\ LET k == call.args.mute_time \div call.args.sample_interval
               out == heap[call.ret]
           IN  /\ SameShape(out, given)
               /\ \A i \in 1..Len(given) : \A j \in 0..(Len(given[i]) - 1) :
                     out[i][j + 1] = IF j >= k THEN 0 ELSE given[i][j + 1]

\* A bottom mute that cuts strictly inside a two-trace matrix without zero samples.
C12_Witness ==
    /\ call.fn = "bottom_mute" /\ ~call.raised
    /\ Len(given) = 2 /\ HasNoZero(given)
    /\ LET k == call.args.mute_time \div call.args.sample_interval
       IN  /\ 0 < k /\ k < Len(given[1])
           /\ \A i \in 1..2 : heap[call.ret][i][k] # 0 /\ heap[call.ret][i][k + 1] = 0

\* C13: deep_zone_mute returns an array in which every sample at a time
\* index * sample_interval at or after total_duration - 200 ms is zero and
\* every earlier sample equals the sample passed in; a record shorter than
\* 200 ms is zeroed entirely.
C13_DeepZoneMute ==
    call.fn = "deep_zone_mute" =>
        /\ ~call.raised
        /\ LET si == call.args.sample_interval
               out == heap[call.ret]
           IN  /\ SameShape(out, given)
               /\ \A i \in 1..Len(given) : \A j \in 0..(Len(given[i]) - 1) :
                     out[i][j + 1] = IF j * si >= Len(given[i]) * si - DeepZoneMuteTime
                                     THEN 0
                                     ELSE given[i][j + 1]

\* C14: time_variant_mute, when it returns, has multiplied sample i of every
\* trace, for start <= i < end, by 1 - (i - start) / (end - start), the same
\* ramp in all traces, and returns every other sample as passed in.  (The
\* returned samples are numerators over call.den.)
C14_LinearRamp ==
    (call.fn = "time_variant_mute" /\ ~call.raised) =>
        LET start == call.args.initial_time \div call.args.sample_interval
            end == call.args.final_time \div call.args.sample_interval
            out == heap[call.ret]
        IN  /\ SameShape(out, given)
            /\ start < end => call.den = end - start
            /\ \A i \in 1..Len(given) : \A j \in 0..(Len(given[i]) - 1) :
                  IF start <= j /\ j < end
                  THEN out[i][j + 1] * (end - start)
                          = given[i][j + 1] * ((end - start) - (j - start)) * call.den
                  ELSE out[i][j + 1] = given[i][j + 1] * call.den

\* a ramp over two samples inside a two-trace matrix without zero samples: the
\* first sample of the window keeps its amplitude, the second is halved
C14_Witness ==
    /\ call.fn = "time_variant_mute" /\ ~call.raised
    /\ Len(given) = 2 /\ HasNoZero(given)
    /\ LET start == call.args.initial_time \div call.args.sample_interval
           end == call.args.final_time \div call.args.sample_interval
       IN  /\ end = start + 2
           /\ end <= Len(given[1])
           /\ \A i \in 1..2 :
                 /\ heap[call.ret][i][start + 1] = given[i][start + 1] * call.den
                 /\ heap[call.ret][i][start + 2] * 2 = given[i][start + 2] * call.den

\* C15: time_variant_mute returns, without raising, an array of the shape of the
\* array passed in for every window 0 <= initial_time <= final_time, also when
\* final_time lies after the end of the trace.
C15_WindowPastEnd ==
    (call.fn = "time_variant_mute" /\ call.args.initial_time <= call.args.final_time) =>
        /\ ~call.raised
        /\ SameShape(heap[call.ret], given)

(***************************************************************************)
(* Further claims about the gains, checked under SpecCore.                 *)
(***************************************************************************)
\* C16: agc_gain returns an array of the shape of the array passed in for every
\* window_size >= 1, also one larger than the number of samples of a trace, and
\* the output row of an all-zero trace is all zero.
C16_AgcShape ==
    call.fn = "agc_gain" =>
        /\ ~call.raised
        /\ SameShape(heap[call.ret], given)
        /\ \A i \in 1..Len(given) :
              IsZeroTrace(given[i])
              => \A j \in 1..Len(given[i]) : heap[call.ret][i][j][1] = 0

(***************************************************************************)
(* Claims about the wavelet filter, checked under SpecCore.                *)
(***************************************************************************)
\* C17: a matrix filtered trace by trace with wavelet_filter, at a level the
\* length of the trace admits, comes back with the shape (n_traces, n_samples)
\* of the matrix passed in, for odd and even n_samples.
C17_WaveletKeepsShape ==
    (call.fn = "wavelet_filter"
     /\ call.args.level <= dwt_max_level(n_samples(given), call.args.filter_len))
    => /\ ~call.raised
       /\ heap[call.ret].n_traces = n_traces(given)
       /\ heap[call.ret].n_samples = n_samples(given)

(***************************************************************************)
(* Quality control passes: one TraceQC, built with its defaults, is asked  *)
(* for its checks several times on one matrix.                             *)
(***************************************************************************)
\* record lengths on which 5%, 10%, 15% and 20% are whole numbers of samples
QCLens == {10, 20}
\* how many leading samples carry the high amplitude
QCCounts(len) == {0, 1, 2, 3, len}
\* amplitudes around threshold_dead and around energy_threshold
QCHigh == {2, 3, 2000, 0 - 2000, 2001}
\* amplitudes below threshold_dead, and at, just above and well above 95% of 2000
QCLow == {0, 1, 0 - 1, 1900, 1901, 1999}

QCTrace(len, k, a, b) == [j \in 1..len |-> IF j <= k THEN a ELSE b]

QCTraces(len) == { QCTrace(len, k, a, b) : k \in QCCounts(len), a \in QCHigh, b \in QCLow }

\* a second trace of the same length: silent, at the largest amplitude on
\* exactly a tenth of its samples, or loud
QCSecond(len) == { QCTrace(len, 0, 0, 0), QCTrace(len, len \div 10, 2000, 0),
                   QCTrace(len, len, 2001, 0) }

QCMatrices == UNION { { <<t>> : t \in QCTraces(len) }
                      \cup { <<s, t>> : s \in QCSecond(len), t \in QCTraces(len) }
                      \cup { <<t, s>> : s \in QCSecond(len), t \in QCTraces(len) }
                      : len \in QCLens }

QCInit ==
    /\ \E m \in QCMatrices :
          /\ heap = [caller |-> m, fresh |-> None]
          /\ given = m
    /\ call = NoCall
    /\ NavIdle
    /\ EditorIdle

\* the number of the pass that is about to run
NextPass == IF call.fn = "none" THEN 1 ELSE call.args.pass + 1

QCInvoke(fn, value) ==
    /\ NextPass <= MaxOps
    /\ call' = [fn |-> fn, args |-> [pass |-> NextPass], raised |-> FALSE,
                ret |-> value, den |-> 1]
    /\ UNCHANGED <<heap, given>>
    /\ UNCHANGED navVars
    /\ UNCHANGED edVars

Call_detect_dead_traces ==
    QCInvoke("detect_dead_traces", detect_dead_traces(TraceQC_init, heap.caller))

Call_detect_clipped_traces ==
    QCInvoke("detect_clipped_traces", detect_clipped_traces(TraceQC_init, heap.caller))

Call_detect_low_energy_traces ==
    QCInvoke("detect_low_energy_traces", detect_low_energy_traces(TraceQC_init, heap.caller))

Call_run_all_checks ==
    QCInvoke("run_all_checks", run_all_checks(TraceQC_init, heap.caller))

QCNext ==
    \/ Call_detect_dead_traces
    \/ Call_detect_clipped_traces
    \/ Call_detect_low_energy_traces
    \/ Call_run_all_checks

SpecQC == QCInit /\ [][QCNext]_vars

\* the indices a returned list holds
Listed(list) == { list[k] : k \in 1..Len(list) }

Ascending(list) == \A k \in 1..(Len(list) - 1) : list[k] < list[k + 1]

\* every amplitude of the trace is below threshold_dead in absolute value
Silent(trace) ==
    \A j \in 1..Len(trace) : /\ trace[j] < TraceQC_init.threshold_dead
                             /\ trace[j] > 0 - TraceQC_init.threshold_dead

AtClipLevel(trace) ==
    { j \in 1..Len(trace) :
        \E top \in 1..Len(trace) :
            /\ \A o \in 1..Len(trace) : Abs(trace[o]) <= Abs(trace[top])
            /\ 20 * Abs(trace[j]) > 19 * Abs(trace[top]) }

\* C19: detect_clipped_traces lists a trace if and only if the samples whose
\* absolute amplitude exceeds clip_threshold times the trace's largest absolute
\* amplitude number strictly more than 10% of the trace: exactly 10% is not
\* listed, and neither is an all-zero trace.
C19_ClippedTraces ==
    call.fn = "detect_clipped_traces" =>
        \A i \in 0..(Len(given) - 1) :
            /\ (i \in Listed(call.ret))
                  <=> 10 * Cardinality(AtClipLevel(given[i + 1])) > Len(given[i + 1])
            /\ (\A j \in 1..Len(given[i + 1]) : given[i + 1][j] = 0)
                  => i \notin Listed(call.ret)
            /\ 10 * Cardinality(AtClipLevel(given[i + 1])) = Len(given[i + 1])
                  => i \notin Listed(call.ret)

\* 20 samples: the first trace has 3 of them (15%) at the largest amplitude and
\* is listed, the second has 2 of them (exactly 10%) and is not
C19_Witness ==
    /\ call.fn = "detect_clipped_traces"
    /\ Len(given) = 2
    /\ given[1] = QCTrace(20, 3, 2000, 1900)
    /\ given[2] = QCTrace(20, 2, 2000, 0)
    /\ call.ret = <<0>>

\* the mean of the squared amplitudes is strictly below the squared threshold
LowEnergy(trace) ==
    SumOver(1..Len(trace), [j \in 1..Len(trace) |-> trace[j] * trace[j]])
        < 2000 * 2000 * Len(trace)

\* the indices of the traces of a matrix that satisfy a test, as a set
DeadSet(data) == { i \in 0..(Len(data) - 1) : Silent(data[i + 1]) }
ClippedSet(data) ==
    { i \in 0..(Len(data) - 1) :
        10 * Cardinality(AtClipLevel(data[i + 1])) > Len(data[i + 1]) }
LowEnergySet(data) == { i \in 0..(Len(data) - 1) : LowEnergy(data[i + 1]) }

\* C20: detect_low_energy_traces lists a trace if and only if its RMS amplitude
\* is strictly below energy_threshold, and run_all_checks returns under 'dead',
\* 'clipped' and 'low_energy' exactly the lists of the three detectors for the
\* matrix it was given, whatever passes ran before it.
C20_LowEnergyAndAllChecks ==
    /\ call.fn = "detect_low_energy_traces" =>
          /\ Ascending(call.ret)
          /\ Listed(call.ret) = LowEnergySet(given)
    /\ call.fn = "run_all_checks" =>
          /\ DOMAIN call.ret = {"dead", "clipped", "low_energy"}
          /\ Ascending(call.ret.dead) /\ Listed(call.ret.dead) = DeadSet(given)
          /\ Ascending(call.ret.clipped) /\ Listed(call.ret.clipped) = ClippedSet(given)
          /\ Ascending(call.ret.low_energy)
          /\ Listed(call.ret.low_energy) = LowEnergySet(given)

\* a third pass of the same TraceQC runs every check on a loud trace with an RMS
\* of exactly the threshold followed by a silent trace: only the silent one is
\* listed, once, as dead and as low in energy
C20_Witness ==
    /\ call.fn = "run_all_checks"
    /\ call.args.pass = MaxOps
    /\ Len(given) = 2
    /\ given[1] = QCTrace(Len(given[1]), Len(given[1]), 2000, 0)
    /\ given[2] = QCTrace(Len(given[2]), 0, 0, 0)
    /\ call.ret = [dead |-> <<1>>, clipped |-> <<0>>, low_energy |-> <<1>>]

(***************************************************************************)
(* Calls of the trace functions: the filters of filters.py and the wavelet *)
(* estimators and deconvolutions of deconvolution.py, each called once on  *)
(* one trace.                                                              *)
(***************************************************************************)
\* sample rates in Hz; the Nyquist frequencies are 4 Hz and 5 Hz
SampleRates == {8, 10}
\* cutoffs in Hz: zero, below, at and above the Nyquist frequencies
Freqs == 0..5
\* stopband attenuations in dB
Ripples == {20}

\* the traces handed to the functions
\* a symmetric pulse centred at sample k (0-based) of a trace of n samples:
\* a single sample of 2, or the samples 1, 2, 1
Pulse(n, k, wide) ==
    [i \in 1..n |-> IF i = k + 1 THEN 2
                    ELSE IF wide /\ (i = k \/ i = k + 2) THEN 1 ELSE 0]

\* traces just long enough for the padding of a one-section zero-phase filter
PulseLens == {10, 11}

Pulses == UNION { { Pulse(n, k, FALSE) : k \in 0..(n - 1) }
                  \cup { Pulse(n, k, TRUE) : k \in 1..(n - 2) } : n \in PulseLens }

SigTraces == { <<1, 2, 2, 1>>, <<1, 2, 3>>, <<0, 0, 1, 0, 0>>, <<0, 0, 0>> } \cup Pulses

SigInit ==
    /\ \E x \in SigTraces :
          /\ heap = [caller |-> x, fresh |-> None]
          /\ given = x
    /\ call = NoCall
    /\ NavIdle
    /\ EditorIdle

\* the caller invokes f once on its trace; o is the outcome
SigInvoke(fn, args, o) ==
    /\ call.fn = "none"
    /\ call' = [fn |-> fn, args |-> args, raised |-> o.raised,
                ret |-> IF o.raised THEN o.error ELSE o.value, den |-> 1]
    /\ UNCHANGED <<heap, given>>
    /\ UNCHANGED navVars
    /\ UNCHANGED edVars

Call_IIR_highpass_filter ==
    \E sample_rate \in SampleRates, filter_order \in Orders, freq \in Freqs :
        SigInvoke("IIR_Filters.highpass_filter",
                  [sample_rate |-> sample_rate, filter_order |-> filter_order, freq |-> freq],
                  IIR_highpass_filter(heap.caller, sample_rate, filter_order, freq))

Call_IIR_lowpass_filter ==
    \E sample_rate \in SampleRates, filter_order \in Orders, freq \in Freqs :
        SigInvoke("IIR_Filters.lowpass_filter",
                  [sample_rate |-> sample_rate, filter_order |-> filter_order, freq |-> freq],
                  IIR_lowpass_filter(heap.caller, sample_rate, filter_order, freq))

Call_IIR_bandpass_filter ==
    \E sample_rate \in SampleRates, filter_order \in Orders, freqmin \in Freqs,
       freqmax \in Freqs :
        SigInvoke("IIR_Filters.bandpass_filter",
                  [sample_rate |-> sample_rate, filter_order |-> filter_order,
                   freqmin |-> freqmin, freqmax |-> freqmax],
                  IIR_bandpass_filter(heap.caller, sample_rate, filter_order, freqmin, freqmax))

Call_cheby2_highpass_filter ==
    \E sample_rate \in SampleRates, filter_order \in Orders, freq \in Freqs,
       ripple \in Ripples :
        SigInvoke("IIR_Filters.cheby2_highpass_filter",
                  [sample_rate |-> sample_rate, filter_order |-> filter_order, freq |-> freq],
                  cheby2_highpass_filter(heap.caller, sample_rate, filter_order, freq, ripple))

Call_cheby2_lowpass_filter ==
    \E sample_rate \in SampleRates, filter_order \in Orders, freq \in Freqs,
       ripple \in Ripples :
        SigInvoke("IIR_Filters.cheby2_lowpass_filter",
                  [sample_rate |-> sample_rate, filter_order |-> filter_order, freq |-> freq],
                  cheby2_lowpass_filter(heap.caller, sample_rate, filter_order, freq, ripple))

Call_cheby2_bandpass_filter ==
    \E sample_rate \in SampleRates, filter_order \in Orders, freqmin \in Freqs,
       freqmax \in Freqs, ripple \in Ripples :
        SigInvoke("IIR_Filters.cheby2_bandpass_filter",
                  [sample_rate |-> sample_rate, filter_order |-> filter_order,
                   freqmin |-> freqmin, freqmax |-> freqmax],
                  cheby2_bandpass_filter(heap.caller, sample_rate, filter_order, freqmin,
                                         freqmax, ripple))

Call_fourier_filter ==
    \E sample_rate \in SampleRates, freqmin \in Freqs, freqmax \in Freqs :
        SigInvoke("FIR_Filters.fourier_filter",
                  [sample_rate |-> sample_rate, freqmin |-> freqmin, freqmax |-> freqmax],
                  fourier_filter(heap.caller, freqmin, freqmax, sample_rate))

Call_zero_phase_bandpass_filter ==
    \E sample_rate \in SampleRates, filter_order \in Orders, freqmin \in Freqs,
       freqmax \in Freqs :
        SigInvoke("FIR_Filters.zero_phase_bandpass_filter",
                  [sample_rate |-> sample_rate, filter_order |-> filter_order,
                   freqmin |-> freqmin, freqmax |-> freqmax],
                  zero_phase_bandpass_filter(heap.caller, freqmin, freqmax, sample_rate,
                                             filter_order))

\* wavelet lengths asked for
WaveletLengths == {1, 2, 3}

\* known reflectivity series: a spike and a doublet
Reflectors == { <<1>>, <<1, 0 - 1>> }

Call_wavelet_autocorrelation ==
    \E wavelet_length \in WaveletLengths :
        SigInvoke("Wavelets.wavelet_autocorrelation", [wavelet_length |-> wavelet_length],
                  wavelet_autocorrelation(heap.caller, wavelet_length))

Call_wavelet_statistically ==
    \E wavelet_length \in WaveletLengths :
        SigInvoke("Wavelets.wavelet_statistically", [wavelet_length |-> wavelet_length],
                  wavelet_statistically(heap.caller, wavelet_length))

Call_estimate_wavelet_matching_filter ==
    \E reflector \in Reflectors :
        SigInvoke("Wavelets.estimate_wavelet_matching_filter", [reflector |-> reflector],
                  estimate_wavelet_matching_filter(heap.caller, reflector))

Call_Spiking_Deconvolution ==
    \E wavelet_length \in WaveletLengths :
        SigInvoke("Deconvolution.Spiking_Deconvolution", [wavelet_length |-> wavelet_length],
                  Spiking_Deconvolution(heap.caller, wavelet_length))

SigNext ==
    \/ Call_IIR_highpass_filter
    \/ Call_IIR_lowpass_filter
    \/ Call_IIR_bandpass_filter
    \/ Call_cheby2_highpass_filter
    \/ Call_cheby2_lowpass_filter
    \/ Call_cheby2_bandpass_filter
    \/ Call_fourier_filter
    \/ Call_zero_phase_bandpass_filter
    \/ Call_wavelet_autocorrelation
    \/ Call_wavelet_statistically
    \/ Call_estimate_wavelet_matching_filter
    \/ Call_Spiking_Deconvolution

SpecSignal == SigInit /\ [][SigNext]_vars

\* C21: the Butterworth bandpass, highpass and lowpass filters raise an error,
\* and return no filtered trace, whenever a cutoff is at or above half the
\* sample rate, and the bandpass also whenever freqmin is not below freqmax.
C21_CutoffsRejected ==
    /\ call.fn \in {"IIR_Filters.highpass_filter", "IIR_Filters.lowpass_filter"} =>
          (2 * call.args.freq >= call.args.sample_rate => call.raised)
    /\ call.fn = "IIR_Filters.bandpass_filter" =>
          ((\/ 2 * call.args.freqmin >= call.args.sample_rate
            \/ 2 * call.args.freqmax >= call.args.sample_rate
            \/ call.args.freqmin >= call.args.freqmax) => call.raised)

\* a bandpass with both cutoffs below the Nyquist frequency and freqmin above
\* freqmax is refused
C21_Witness ==
    /\ call.fn = "IIR_Filters.bandpass_filter"
    /\ call.args.freqmin > call.args.freqmax
    /\ call.args.freqmax > 0
    /\ 2 * call.args.freqmin < call.args.sample_rate
    /\ call.raised

(***************************************************************************)
(* Claims about the filter slots of the editor, checked under              *)
(* SpecFilterSlots.                                                        *)
(***************************************************************************)
\* the parameters fail the rules of validate_filter_params
InvalidRequest(r, sample_interval) ==
    \/ r.order < 1 \/ r.order > 100
    \/ r.freq <= 0
    \/ 2 * r.freq * sample_interval >= 8
    \/ r.bandpass /\ (r.freqmax <= r.freq \/ 2 * r.freqmax * sample_interval >= 8)

\* C22: when the parameters collected by get_filter_params fail
\* validate_filter_params, the slot starts no worker and leaves processed_data
\* (and every array) as it was.
C22_InvalidNotApplied ==
    [][(asked'.request # asked.request /\ InvalidRequest(asked', self_sample_interval))
          => /\ workers' = workers
             /\ self_processed_data' = self_processed_data
             /\ arrays' = arrays]_vars

\* data is loaded and was filtered once; then a bandpass is asked for with a
\* maximum at the Nyquist frequency, no dialog being cancelled: no worker is
\* there and processed_data is still the first result
C22_Witness ==
    /\ asked.slot = "apply_cheby_bandpass_filter"
    /\ asked.cancelled = "none"
    /\ asked.freq = 1
    /\ asked.freqmax = 4
    /\ self_sample_interval = 1
    /\ asked.request = 2
    /\ self_processed_data # 0
    /\ workers = <<>>

(***************************************************************************)
(* Claims about the trace functions, checked under SpecSignal.             *)
(***************************************************************************)
\* the single-cutoff and the two-cutoff IIR filter functions
OneCutoffFilters == {"IIR_Filters.highpass_filter", "IIR_Filters.lowpass_filter",
                     "IIR_Filters.cheby2_highpass_filter",
                     "IIR_Filters.cheby2_lowpass_filter"}
TwoCutoffFilters == {"IIR_Filters.bandpass_filter", "IIR_Filters.cheby2_bandpass_filter"}

\* the cutoffs of the call lie strictly between 0 and half the sample rate, in order
ValidCutoffs ==
    \/ /\ call.fn \in OneCutoffFilters
       /\ call.args.freq > 0
       /\ 2 * call.args.freq < call.args.sample_rate
    \/ /\ call.fn \in TwoCutoffFilters
       /\ call.args.freqmin > 0
       /\ call.args.freqmin < call.args.freqmax
       /\ 2 * call.args.freqmax < call.args.sample_rate

\* C23: for valid parameters each of the six IIR filter functions returns a
\* trace of the input's length, filtered in one causal pass by a design in
\* second-order-sections form; cheby2_lowpass_filter among them.
C23_SixFiltersReturn ==
    (call.fn \in OneCutoffFilters \cup TwoCutoffFilters /\ ValidCutoffs) =>
        /\ ~call.raised
        /\ call.ret.design.output = "sos"
        /\ call.ret.passes = <<"forward">>
        /\ call.ret.n_samples = Len(given)

\* the frequency of bin k of an n-point transform, times n: k * sample_rate for
\* the first half of the bins, (k - n) * sample_rate for the second
BinFrequencyTimesN(n, k, sample_rate) ==
    IF 2 * k < n THEN k * sample_rate ELSE (k - n) * sample_rate

\* C24: fourier_filter keeps every FFT bin whose frequency lies in
\* [freqmin, freqmax], bounds included, and zeroes every bin whose frequency
\* lies outside that interval.
C24_BrickWallInclusive ==
    call.fn = "FIR_Filters.fourier_filter" =>
        \A k \in 0..(Len(given) - 1) :
            LET f == BinFrequencyTimesN(Len(given), k, call.args.sample_rate)
                inside == /\ call.args.freqmin * Len(given) <= f
                          /\ f <= call.args.freqmax * Len(given)
            IN  call.ret.spectrum[k + 1].zero = ~inside

\* the 0-based index of the first sample of largest absolute value
PeakIndex(y) ==
    CHOOSE p \in 0..(Len(y) - 1) :
        /\ \A i \in 1..Len(y) : Abs(y[i]) <= Abs(y[p + 1])
        /\ \A i \in 1..p : Abs(y[i]) < Abs(y[p + 1])

NonZeroTrace(x) == \E i \in 1..Len(x) : x[i] # 0

\* C27: for a non-zero trace whose autocorrelation Toeplitz matrix is not
\* singular, Spiking_Deconvolution returns a trace of the input's length that
\* is not identically zero.
C27_SpikingNotZero ==
    (call.fn = "Deconvolution.Spiking_Deconvolution" /\ NonZeroTrace(given) /\ ~call.raised) =>
        /\ Len(call.ret.num) = Len(given)
        /\ \E i \in 1..Len(call.ret.num) : call.ret.num[i] # 0

\* C28: for a non-zero trace each of the three wavelet estimation methods
\* returns a wavelet whose largest absolute value is exactly 1.
C28_UnitPeak ==
    (/\ call.fn \in {"Wavelets.wavelet_autocorrelation", "Wavelets.wavelet_statistically",
                     "Wavelets.estimate_wavelet_matching_filter"}
     /\ NonZeroTrace(given)
     /\ ~call.raised) =>
        /\ call.ret.den # 0
        /\ \A i \in 1..Len(call.ret.num) : Abs(call.ret.num[i]) <= Abs(call.ret.den)
        /\ \E i \in 1..Len(call.ret.num) : Abs(call.ret.num[i]) = Abs(call.ret.den)

(***************************************************************************)
(* Claims about overlapping processing runs, checked under SpecFilterSlots.*)
(***************************************************************************)
\* the arrays array a was computed from, a included
RECURSIVE ComputedFrom(_)
ComputedFrom(a) ==
    IF a = 0 THEN {}
    ELSE IF arrays[a].kind = "term" THEN {a} \cup ComputedFrom(arrays[a].of)
    ELSE {a}

\* every worker returned and every signal was delivered
AllRunsDelivered == workers = <<>> /\ events = <<>>

\* C30: processing is cumulative under every interleaving: once every worker
\* has finished and its result was delivered, processed_data is computed from
\* the result of every operation that finished, also of one started while
\* another worker was running.
C30_Cumulative ==
    (AllRunsDelivered /\ self_processed_data # 0) =>
        \A r \in 1..Len(arrays) : r \in ComputedFrom(self_processed_data)

(***************************************************************************)
(* Claims about ProcessWorker.run, checked under SpecWorker.               *)
(***************************************************************************)
\* the signal a worker emitted last, "" before its first one
LastEmitted(w) ==
    IF workers[w].emitted = <<>> THEN "" ELSE workers[w].emitted[Len(workers[w].emitted)]

\* the slot connected to finished takes the signal at the head of the queue
FinishedDelivered ==
    /\ events # <<>>
    /\ Head(events).signal = "finished"
    /\ events' = Tail(events)

\* C26: a processing run is atomic with respect to processed_data.  The worker
\* applies fk_filter and wiener_deconvolution to the whole array and every
\* other function trace by trace; processed_data is replaced only when a
\* finished signal is delivered, by a result that holds every trace; in every
\* other step, a step of a running worker or the delivery of an error
\* included, processed_data keeps its value and no existing array changes.
C26_AtomicRun ==
    /\ [](\A w \in 1..Len(workers) :
            /\ workers[w].process_func \in WholeMatrixFuncs =>
                  /\ workers[w].pc \notin {"loop", "progress"}
                  /\ workers[w].result \in {0, len_data(workers[w].data)}
            /\ workers[w].process_func \notin WholeMatrixFuncs =>
                  (workers[w].pc = "finish" => workers[w].i = len_data(workers[w].data)))
    /\ [][/\ self_processed_data' # self_processed_data =>
                /\ FinishedDelivered
                /\ self_processed_data' = Head(events).result
                /\ arrays[Head(events).result].kind = "term"
                /\ Head(events).traces = len_data(Head(events).result)
          /\ \A a \in 1..Len(arrays) : a <= Len(arrays') /\ arrays'[a] = arrays[a]]_vars

\* one worker raised on a trace and its error was delivered, another worked
\* trace by trace and its complete result is processed_data
C26_Witness ==
    /\ events = <<>>
    /\ self_processed_data # 0
    /\ \E w \in 1..Len(workers), v \in 1..Len(workers) :
          /\ workers[w].pc = "returned"
          /\ LastEmitted(w) = "finished"
          /\ workers[w].process_func \notin WholeMatrixFuncs
          /\ workers[w].result = MaxTraces
          /\ arrays[self_processed_data] = Term(workers[w].process_func, workers[w].data)
          /\ workers[v].pc = "returned"
          /\ workers[v].raised
          /\ workers[v].result >= 1

\* the positions in the signals of worker w that hold a terminal signal
Terminals(w) ==
    {k \in 1..Len(workers[w].emitted) : workers[w].emitted[k] \in {"finished", "error"}}

\* C29: every ProcessWorker.run emits exactly one terminal signal, never both
\* and never neither: finished when the function succeeded on all traces,
\* error when the function is not callable or raised; a worker that has not
\* returned has emitted none; every progress emission precedes finished.
C29_OneTerminalSignal ==
    \A w \in 1..Len(workers) :
        LET e == workers[w].emitted
        IN  /\ workers[w].pc # "returned" => Terminals(w) = {}
            /\ workers[w].pc = "returned" =>
                  /\ Terminals(w) = {Len(e)}
                  /\ LastEmitted(w) = "error" <=>
                        (workers[w].raised \/ workers[w].process_func = NotCallable)
                  /\ LastEmitted(w) = "finished" =>
                        workers[w].result = len_data(workers[w].data)
            /\ \A k \in 1..Len(e) :
                  e[k] = "progress" => \A j \in 1..k : e[j] # "finished"

\* one worker emitted a progress signal for every trace and then finished,
\* another was given a function that is not callable and emitted error
C29_Witness ==
    \E w \in 1..Len(workers), v \in 1..Len(workers) :
        /\ workers[w].pc = "returned"
        /\ Len(workers[w].emitted) = MaxTraces + 1
        /\ LastEmitted(w) = "finished"
        /\ workers[w].emitted[1] = "progress"
        /\ workers[v].pc = "returned"
        /\ workers[v].process_func = NotCallable
        /\ workers[v].emitted = <<"error">>

====
